---- MODULE Spec2Model ----
(***************************************************************************)
(* Model of the browser-automation agent driver (chromecontroller).        *)
(*                                                                         *)
(* The service worker (background.js) is single-threaded: the code between *)
(* two awaits runs atomically.  Every action below is therefore either a   *)
(* message handler of chrome.runtime.onMessage, or the completion of one   *)
(* await of handleExecuteCommand / AIClient.sendMessage together with all  *)
(* synchronous code up to the next await.  The loop state of the running   *)
(* command is kept in one variable per local of handleExecuteCommand.      *)
(***************************************************************************)
EXTENDS Integers, Sequences, FiniteSets, TLC

(***************************************************************************)
(* Bounds of the model (not program constants).                            *)
(***************************************************************************)
\* number of EXECUTE_COMMAND requests the UI sends in one behaviour
MaxRequests == 2
\* longest action batch a planner decision carries
MaxActions == 2
\* planner replies per command that are drawn from the full decision set of the
\* environment; later replies are drawn from its closing set
MaxFreeCalls == 2
\* most child frames of a page the map diff is computed over
MaxIframes == 2
\* most child frames of the tab the snapshot service walks
MaxChildFrames == 1
\* most draggable tiles of a quiz question
MaxTiles == 3
\* deepest chain of elements between a branch of the document and its leaf
MaxDepth == 4

(***************************************************************************)
(* Program constants.                                                      *)
(***************************************************************************)
MAX_RETRIES == 3
MaxStepsNormal == 15
MaxStepsQuiz == 25
TrimThreshold == 12
HistoryWindow == 6


(***************************************************************************)
(* Sequence helpers.                                                       *)
(***************************************************************************)
Last(s) == s[Len(s)]

\* Array.prototype.slice(-n): the trailing n entries (all, when shorter)
SliceLast(s, n) == IF Len(s) <= n THEN s ELSE SubSeq(s, Len(s) - n + 1, Len(s))

\* Array.prototype.splice(-2, 2): drop the last two entries
SpliceLast2(s) == SubSeq(s, 1, Len(s) - 2)

RECURSIVE SumSeq(_)
SumSeq(s) == IF s = <<>> THEN 0 ELSE Head(s) + SumSeq(Tail(s))

(***************************************************************************)
(* Visual Page Maps.  A map is the sequence of its lines (the text split   *)
(* at '\n').  A line records what the code inspects of it:                 *)
(*   c     how it starts: "=" for '===', "[" for '[', "" otherwise         *)
(*   s     its text                                                        *)
(*   tok   the patterns String.includes finds in it                        *)
(*   sel   the value of its sel="..." part, "" when it has none            *)
(*   label its first quoted text other than the selector, "" when none     *)
(*   item  <<n, m>> when it holds "n of m Items", <<>> otherwise           *)
(*   n     the number printed in it (frame id, element count), else 0      *)
(*   refs  the references of a "Key controls" line, else <<>>              *)
(* The empty string is the empty sequence; undefined is the one-line value *)
(* Undefined, which no text splits into.                                   *)
(***************************************************************************)
Line(c, s, tok, sel, label, item, n, refs) ==
    [c |-> c, s |-> s, tok |-> tok, sel |-> sel, label |-> label, item |-> item,
     n |-> n, refs |-> refs]

Hdr(s, tok, n) == Line("=", s, tok, "", "", <<>>, n, <<>>)
Txt(s) == Line("", s, {}, "", "", <<>>, 0, <<>>)
Blank == Txt("")
El(s, tok, sel, label, item) == Line("[", s, tok, sel, label, item, 0, <<>>)

Undefined == <<Line("undefined", "undefined", {}, "", "", <<>>, 0, <<>>)>>

MapHeader == Hdr("=== VISUAL PAGE MAP ===", {"VISUAL PAGE MAP"}, 0)
IframeHeader(n) == Hdr("=== IFRAME CONTENT (frameId=N) ===",
                       {"IFRAME", "=== IFRAME CONTENT"}, n)
DiffHeader == Hdr("=== PAGE UPDATE (diff) ===", {}, 0)
PageUnchanged == <<Line("[", "[Page unchanged]", {}, "", "", <<>>, 0, <<>>)>>

\* line.startsWith('===')
IsHeaderLine(l) == l.c = "="
\* line.trim().startsWith('[')
IsElementLine(l) == l.c = "["

\* !map : undefined, null and '' are falsy
Falsy(map) == map = Undefined \/ map = <<>>

\* computeMapDiff.getElementLines
getElementLines(lines) == SelectSeq(lines, IsElementLine)

\* String.prototype.trim on a body: leading and trailing blank lines go
RECURSIVE TrimLeft(_)
TrimLeft(b) == IF b # <<>> /\ Head(b) = Blank THEN TrimLeft(Tail(b)) ELSE b
RECURSIVE TrimRight(_)
TrimRight(b) ==
    IF b # <<>> /\ Last(b) = Blank THEN TrimRight(SubSeq(b, 1, Len(b) - 1)) ELSE b
TrimBody(b) == TrimRight(TrimLeft(b))

\* computeMapDiff.splitSections: lines before the first header are dropped
RECURSIVE SplitFrom(_, _, _, _)
SplitFrom(lines, header, body, acc) ==
    IF lines = <<>>
    THEN IF header # Blank THEN Append(acc, [header |-> header, body |-> body]) ELSE acc
    ELSE IF IsHeaderLine(Head(lines))
         THEN SplitFrom(Tail(lines), Head(lines), <<>>,
                        IF header # Blank
                        THEN Append(acc, [header |-> header, body |-> body])
                        ELSE acc)
         ELSE SplitFrom(Tail(lines), header, Append(body, Head(lines)), acc)
splitSections(map) == SplitFrom(map, Blank, <<>>, <<>>)

\* Array.prototype.find over the old sections: <<>> when none matches
FindSection(secs, token) ==
    LET hits == {k \in 1..Len(secs) : token \in secs[k].header.tok}
    IN  IF hits = {} THEN <<>>
        ELSE <<secs[CHOOSE k \in hits : \A j \in hits : k <= j]>>

\* the "Key controls" references of an unchanged outer section
KeyRefs(els) ==
    LET stars == SelectSeq(els, LAMBDA l : "[*" \in l.tok /\ l.sel # "")
    IN  [k \in 1..Len(stars) |-> <<stars[k].label, stars[k].sel>>]

RECURSIVE DiffSections(_, _)
DiffSections(newSecs, oldSecs) ==
    IF newSecs = <<>> THEN <<>>
    ELSE LET newSec == Head(newSecs)
             isIframe == "IFRAME" \in newSec.header.tok
             oldSec == IF isIframe THEN FindSection(oldSecs, "IFRAME")
                       ELSE FindSection(oldSecs, "VISUAL PAGE MAP")
             newSecEls == getElementLines(newSec.body)
             oldSecEls == IF oldSec # <<>> THEN getElementLines(oldSec[1].body) ELSE <<>>
             refs == KeyRefs(newSecEls)
             part ==
                 IF oldSecEls = newSecEls
                 THEN IF ~isIframe
                      THEN <<Blank,
                             Line("[", "[Outer page: N elements unchanged]", {}, "", "",
                                  <<>>, Len(newSecEls), <<>>)>>
                           \o (IF refs # <<>>
                               THEN <<Line("", "Key controls: ", {}, "", "", <<>>, 0, refs)>>
                               ELSE <<>>)
                      ELSE <<Blank,
                             Line("[", "[Iframe: N elements unchanged]", {}, "", "",
                                  <<>>, Len(newSecEls), <<>>)>>
                 ELSE <<Blank, newSec.header>> \o TrimBody(newSec.body)
         IN  part \o DiffSections(Tail(newSecs), oldSecs)

\* faulty variant: the quick check compares the whole texts
computeMapDiffByText(oldMap, newMap) ==
    IF Falsy(oldMap) THEN newMap
    ELSE IF oldMap = newMap THEN PageUnchanged
    ELSE <<DiffHeader,
           Txt("Unchanged sections omitted. Previous selectors still valid.")>>
         \o DiffSections(splitSections(newMap), splitSections(oldMap))

computeMapDiff(oldMap, newMap) ==
    IF Falsy(oldMap) THEN newMap
    ELSE IF getElementLines(oldMap) = getElementLines(newMap) THEN PageUnchanged
    ELSE <<DiffHeader,
           Txt("Unchanged sections omitted. Previous selectors still valid.")>>
         \o DiffSections(splitSections(newMap), splitSections(oldMap))

\* what only computeMapDiff produces: its header, or the unchanged notice
IsDiffOutput(map) ==
    /\ ~Falsy(map)
    /\ (map = PageUnchanged \/ Head(map) = DiffHeader)

\* collectAllFrameVisualMaps, the merge of the per-frame replies: `maps` is the
\* sequence of [frameId, isTop, map] of the frames that replied with a map
RECURSIVE MergeChildren(_)
MergeChildren(maps) ==
    IF maps = <<>> THEN <<>>
    ELSE LET m == Head(maps)
         IN  (IF m.isTop THEN <<>>
              ELSE <<IframeHeader(m.frameId)>> \o Tail(m.map) \o <<Blank>>)
             \o MergeChildren(Tail(maps))

mergeFrameMaps(maps) ==
    IF Len(maps) = 0 THEN <<>>
    ELSE IF Len(maps) = 1 THEN maps[1].map
    ELSE LET tops == SelectSeq(maps, LAMBDA m : m.isTop)
         IN  TrimBody((IF tops # <<>> THEN tops[1].map \o <<Blank>> ELSE <<>>)
                      \o MergeChildren(maps))

(***************************************************************************)
(* Quiz oracle (pure functions of the page context).                       *)
(***************************************************************************)
\* String.prototype.includes over the whole text
MapIncludes(map, pattern) ==
    ~Falsy(map) /\ \E k \in 1..Len(map) : pattern \in map[k].tok

\* indexOf('=== IFRAME CONTENT'): the first line holding it, 0 when none
IframeIdx(map) ==
    IF MapIncludes(map, "=== IFRAME CONTENT")
    THEN CHOOSE k \in 1..Len(map) :
            /\ "=== IFRAME CONTENT" \in map[k].tok
            /\ \A j \in 1..(k - 1) : "=== IFRAME CONTENT" \notin map[j].tok
    ELSE 0

QuizIndicators ==
    << <<"lrn_assess", 3>>, <<"mcq-input", 3>>, <<"[radio]", 1>>, <<"[checkbox]", 1>>,
       <<"Quick Check", 2>>, <<"Item ", 1>>, <<"question", 1>>, <<"[unchecked]", 1>> >>

QuizThreshold == 4

\* detectQuizMode: ctx.keywords are the quiz keywords found in the URL or title
detectQuizMode(ctx) ==
    LET hits == [k \in 1..Len(QuizIndicators) |->
                    IF MapIncludes(ctx.visualMap, QuizIndicators[k][1])
                    THEN QuizIndicators[k][2] ELSE 0]
    IN  SumSeq(hits) + 2 * Cardinality(ctx.keywords) >= QuizThreshold

\* detectNeedsVision: a large IMG with fewer than 10 characters of text in the
\* iframe part of the map
detectNeedsVision(ctx) ==
    LET map == ctx.visualMap
        idx == IframeIdx(map)
    IN  /\ idx # 0
        /\ \E k \in idx..Len(map) :
              {"[IMG]", "w>=50", "h>=50", "text<10"} \subseteq map[k].tok

NoKey == [kind |-> "null", n |-> 0, m |-> 0, s |-> ""]

\* faulty variant: a key made of the question and tile texts of the frame
extractQuestionKeyFromText(visualMap) ==
    LET labelled == SelectSeq(IF Falsy(visualMap) THEN <<>> ELSE visualMap,
                              LAMBDA l : l.label # "")
    IN  IF labelled = <<>> THEN [kind |-> "null", n |-> 0, m |-> 0, s |-> ""]
        ELSE [kind |-> "text", n |-> Len(labelled), m |-> 0,
              s |-> labelled[Len(labelled)].label]

\* extractQuestionKey: "N of M Items" first, else the 80 characters from the
\* iframe header on (the header and the start of the line after it), else null
extractQuestionKey(visualMap) ==
    IF Falsy(visualMap) THEN NoKey
    ELSE LET items == {k \in 1..Len(visualMap) : visualMap[k].item # <<>>}
             idx == IframeIdx(visualMap)
         IN  IF items # {}
             THEN LET k == CHOOSE k \in items : \A j \in items : k <= j
                  IN  [kind |-> "item", n |-> visualMap[k].item[1],
                       m |-> visualMap[k].item[2], s |-> ""]
             ELSE IF idx # 0
             THEN [kind |-> "header", n |-> visualMap[idx].n, m |-> 0,
                   s |-> IF idx < Len(visualMap) THEN visualMap[idx + 1].s ELSE ""]
             ELSE NoKey

ChromeLabels == {"Next", "Previous", "Back", "Submit", "Cancel", "Close", "Save",
                 "Check Answer", "Review", "Finish", "Done", "OK"}

\* extractQuizQuestion: the first 15 labelled texts of the iframe part that are
\* not button chrome; <<>> stands for null
extractQuizQuestion(visualMap) ==
    IF Falsy(visualMap) \/ IframeIdx(visualMap) = 0 THEN <<>>
    ELSE LET part == SubSeq(visualMap, IframeIdx(visualMap), Len(visualMap))
             good == SelectSeq(part, LAMBDA l :
                        /\ l.sel # "" /\ l.label # ""
                        /\ "text<3" \notin l.tok
                        /\ l.label \notin ChromeLabels
                        /\ "chrome" \notin l.tok)
             texts == [k \in 1..Len(good) |-> good[k].label]
         IN  SubSeq(texts, 1, IF Len(texts) < 15 THEN Len(texts) ELSE 15)

(***************************************************************************)
(* Pages the tab can show.                                                 *)
(***************************************************************************)
Summary == Txt("Viewport: 1280x720 | Scroll: 0,0 | Total elements: N")

TopFrameMap ==
    <<MapHeader, Summary, Blank,
      El("[*BUTTON] sel=#next Next", {"[*"}, "#next", "Next", <<>>)>>

QuizFrameMap(checked, item) ==
    <<MapHeader, Summary, Blank,
      El("[DIV] sel=.counter N of M Items", {"Item "}, ".counter", "N of M Items", item),
      El("[P] sel=.stem Capital of France?", {"question"}, ".stem",
         "Capital of France?", <<>>),
      El("[*INPUT[radio]] sel=#opt3 Paris",
         {"[*", "[radio]", "mcq-input", IF checked THEN "[CHECKED]" ELSE "[unchecked]"},
         "#opt3", "Paris", <<>>)>>

ImageFrameMap ==
    <<MapHeader, Summary, Blank,
      El("[IMG] sel=.figure", {"[IMG]", "w>=50", "h>=50", "text<10", "text<3"},
         ".figure", "", <<>>)>>

Frame(id, isTop, map) == [frameId |-> id, isTop |-> isTop, map |-> map]

PlainMap == mergeFrameMaps(<<Frame(0, TRUE, TopFrameMap)>>)
QuizMap(checked, item) ==
    mergeFrameMaps(<<Frame(0, TRUE, TopFrameMap),
                     Frame(7, FALSE, QuizFrameMap(checked, item))>>)
ImageMap ==
    mergeFrameMaps(<<Frame(0, TRUE, TopFrameMap), Frame(7, FALSE, ImageFrameMap)>>)

(***************************************************************************)
(* LLM dispatcher (AIClient): conversation history and decisions.          *)
(***************************************************************************)
\* a message text: its kind and the search results appended to it ("" none)
Msg(kind, search) == [kind |-> kind, search |-> search]
NoMessage == Msg("", "")

Entry(role, content) == [role |-> role, content |-> content]

\* conversationHistory.push({user, userMessage}); push({assistant, text})
PushPair(history, userMessage, text) ==
    history \o <<Entry("user", userMessage), Entry("assistant", Msg(text, ""))>>

\* AIClient._trimHistory
\* faulty variant: a history that is never cut back
neverTrimmed(history) == history

\* faulty variant: a recovery that keeps the history
historyKept(history) == history

\* the json_validate_failed recovery: this.conversationHistory = []
historyForRetry(history) == <<>>

_trimHistory(history) ==
    IF Len(history) > TrimThreshold THEN SliceLast(history, HistoryWindow) ELSE history

\* the history entries a request carries: conversationHistory.slice(-6)
recentHistory(history) == SliceLast(history, HistoryWindow)

\* faulty variant: the rejected pair stays
SpliceNothing(history) == history

\* the loop's removal of a rejected pair
SpliceRejected(history) == IF Len(history) >= 2 THEN SpliceLast2(history) ELSE history

Action(type) == [type |-> type]
Decision(actions, done, mode, summary) ==
    [actions |-> actions, done |-> done, mode |-> mode, summary |-> summary]
NoResponse == Decision(<<>>, FALSE, "none", "")

\* _parseResponse's fallback when no object with an actions array is found
NeutralDecision == Decision(<<>>, FALSE, "none", "prose")

\* response.actions?.some(a => a.type !== 'describe')
hasRealActions(response) ==
    \E k \in 1..Len(response.actions) : response.actions[k].type # "describe"

\* faulty variant: any non-empty batch is accepted
GotAnyActions(response) == Len(response.actions) > 0

\* the retry loop's acceptance test
GotActions(response) == Len(response.actions) > 0 /\ hasRealActions(response)

\* faulty variant: the quiz budget in every mode
maxStepsOfQuiz(mode) == MaxStepsQuiz

\* maxSteps()
maxSteps(mode) == IF mode = "quiz" THEN MaxStepsQuiz ELSE MaxStepsNormal

\* faulty variant: a search that does not end the batch
isBreakPointNoSearch(action) == action.type \in {"snapshot", "screenshot"}

\* isBreakPoint
isBreakPoint(action) == action.type \in {"snapshot", "screenshot", "search"}

\* the quiz-mode drag settle
IsQuizDrag(action, mode) == mode = "quiz" /\ action.type = "drag"

\* response.done === true || response.done === 'true'
isDone(response) == response.done

\* the loop's exit test after a batch
DoneHonoured(response, hit, mode) == isDone(response) /\ ~(hit /\ mode = "quiz")

\* isGroqVisionModel
\* the level of the log line of an action: 'error' when the executor threw
\* or returned success === false
actionLogLevel(outcome) == IF outcome = "ok" THEN "success" ELSE "error"

\* faulty variant: an executor that throws is not caught
ActionErrorUncaught(outcome) == outcome # "throw"

\* the try/catch around executeAction catches whatever the executor throws
ActionErrorCaught(outcome) == TRUE

isGroqVisionModel(model) == model = "llama-4-scout"

\* whether the planner request has the screenshot attached: _sendGroq attaches
\* it for a vision model, _sendOpenRouter whenever there is one
carriesImage(client, ctx) ==
    IF client.provider = "groq"
    THEN isGroqVisionModel(client.model) /\ ctx.screenshot
    ELSE ctx.screenshot

(***************************************************************************)
(* State.                                                                  *)
(***************************************************************************)
VARIABLES
    env,                  \* the name of the environment the inputs are drawn from
    storage,              \* chrome.storage.local settings
    isExecuting, shouldStop, aiClient, conversationHistory,
    req,                  \* every EXECUTE_COMMAND request: unsent or its reply
    cur,                  \* the request whose invocation is in the loop
    pc,                   \* the await handleExecuteCommand is suspended at
    step, executionMode, lastFullVisualMap, lastSearchResults,
    lastSearchedQuestion, lastSummary,
    pageContext, questionKey, message, attempt, response, gotActions,
    i, hitSnapshot,
    exit,                 \* how the latest invocation left the loop
    stopAt,               \* where the loop was when the STOP that armed the flag came
    executed,             \* indices of the actions of this batch started
    captured,             \* the full map of the latest getPageContext
    histAtCall,           \* the history when the running sendMessage began
    skipped,              \* how many actions of the finished batch were not started
    calls,                \* planner replies of this command, counted up to Env.free
    debuggerAttachedTabs, \* the tabs the service worker believes it is attached to
    chromeDebugger,       \* the browser's side of the debug channel of the tab
    frames,               \* the frames of the tab and the probe in each
    inflight,             \* frame messages sent and not yet answered
    svc,                  \* the locals of getPageContext / executeAction in progress
    ui,                   \* what the newest accepted command has broadcast
    responseText,         \* the text of a provider reply, cut into tokens
    dom,                  \* the elements of the document of a frame
    emitted               \* the selector getVisualPageMap gave each element

vars == <<env, storage, isExecuting, shouldStop, aiClient, conversationHistory,
          req, cur, pc, step, executionMode, lastFullVisualMap, lastSearchResults,
          lastSearchedQuestion, lastSummary, pageContext, questionKey, message,
          attempt, response, gotActions, i, hitSnapshot, exit, stopAt, executed,
          captured, histAtCall, skipped, calls, debuggerAttachedTabs,
          chromeDebugger, frames, inflight, svc, ui,
                   responseText, dom, emitted>>

Requests == 1..MaxRequests

NoClient == [provider |-> "", apiKey |-> "", model |-> "", searchModel |-> "",
             searchEnabled |-> FALSE]
NoContext == [visualMap |-> Undefined, keywords |-> {}, screenshot |-> FALSE,
              needsVision |-> FALSE]

\* the broadcasts of a command: the terminal STATUS_UPDATEs (ready, error) in
\* order, the latest EXECUTION_STATE, whether 'Stopped by user' was logged, the
\* outcome and the log level of the latest action of the running step, and
\* whether the no-actions line was logged since the last message was built;
\* of the searches: the key of the latest automatic search while every step
\* since had that key, the step whose search filled the buffer (-1 once the
\* buffer was read), and the step whose search the message of this step shows;
\* whether the provider answered the pending sendMessage, or the one the
\* command failed in, with json_validate_failed
Ui0 == [status |-> <<>>, running |-> "", stoppedLog |-> FALSE, outcome |-> "",
        actionLog |-> "", gaveUp |-> FALSE, searched |-> NoKey, from |-> -1,
        shown |-> -1, jsonFailed |-> FALSE]

\* the locals of an invocation of handleExecuteCommand before its first await
Locals0 ==
    [pc |-> "idle", cur |-> 0, step |-> 0, executionMode |-> "normal",
     lastFullVisualMap |-> Undefined, lastSearchResults |-> "",
     lastSearchedQuestion |-> NoKey, lastSummary |-> "",
     pageContext |-> NoContext, questionKey |-> NoKey, message |-> NoMessage,
     attempt |-> 0, response |-> NoResponse, gotActions |-> FALSE,
     i |-> 0, hitSnapshot |-> FALSE, exit |-> "", stopAt |-> "",
     executed |-> <<>>,
     captured |-> Undefined, histAtCall |-> <<>>, skipped |-> 0,
     calls |-> 0]

\* the current state as one record, and the assignment of one to the next state
St ==
    [env |-> env, storage |-> storage, isExecuting |-> isExecuting,
     shouldStop |-> shouldStop, aiClient |-> aiClient,
     conversationHistory |-> conversationHistory, req |-> req, cur |-> cur,
     pc |-> pc, step |-> step, executionMode |-> executionMode,
     lastFullVisualMap |-> lastFullVisualMap,
     lastSearchResults |-> lastSearchResults,
     lastSearchedQuestion |-> lastSearchedQuestion, lastSummary |-> lastSummary,
     pageContext |-> pageContext, questionKey |-> questionKey,
     message |-> message, attempt |-> attempt, response |-> response,
     gotActions |-> gotActions, i |-> i, hitSnapshot |-> hitSnapshot,
     exit |-> exit, stopAt |-> stopAt, executed |-> executed, captured |-> captured,
     histAtCall |-> histAtCall, skipped |-> skipped, calls |-> calls,
     debuggerAttachedTabs |-> debuggerAttachedTabs,
     chromeDebugger |-> chromeDebugger, frames |-> frames, inflight |-> inflight,
     svc |-> svc, ui |-> ui, responseText |-> responseText,
     dom |-> dom, emitted |-> emitted]

\* every variable takes its value from the record t, which is bound once
Set(t) ==
    \E u \in {t} :
    /\ env' = u.env /\ storage' = u.storage
    /\ isExecuting' = u.isExecuting /\ shouldStop' = u.shouldStop
    /\ aiClient' = u.aiClient /\ conversationHistory' = u.conversationHistory
    /\ req' = u.req /\ cur' = u.cur /\ pc' = u.pc /\ step' = u.step
    /\ executionMode' = u.executionMode
    /\ lastFullVisualMap' = u.lastFullVisualMap
    /\ lastSearchResults' = u.lastSearchResults
    /\ lastSearchedQuestion' = u.lastSearchedQuestion
    /\ lastSummary' = u.lastSummary /\ pageContext' = u.pageContext
    /\ questionKey' = u.questionKey /\ message' = u.message
    /\ attempt' = u.attempt /\ response' = u.response
    /\ gotActions' = u.gotActions /\ i' = u.i /\ hitSnapshot' = u.hitSnapshot
    /\ exit' = u.exit /\ stopAt' = u.stopAt /\ executed' = u.executed
    /\ captured' = u.captured /\ histAtCall' = u.histAtCall
    /\ skipped' = u.skipped /\ calls' = u.calls
    /\ debuggerAttachedTabs' = u.debuggerAttachedTabs
    /\ chromeDebugger' = u.chromeDebugger
    /\ frames' = u.frames /\ inflight' = u.inflight /\ svc' = u.svc
    /\ ui' = u.ui
    /\ responseText' = u.responseText
    /\ dom' = u.dom
    /\ emitted' = u.emitted

(***************************************************************************)
(* handleExecuteCommand, cut at its awaits.  Each operator below is the    *)
(* synchronous code from one point of the function to the next await (or   *)
(* to the return), as a function from the state to the state.              *)
(***************************************************************************)
\* faulty variant: a guard that admits every command
NeverBusy(executing) == FALSE

\* the guard of handleExecuteCommand
IsBusy(executing) == executing

\* faulty variant: an entry that leaves the stop flag as it finds it
entryFlagsArmed(s) == [s EXCEPT !.isExecuting = TRUE]

\* the flags a command claims before its first await
entryFlags(s) == [s EXCEPT !.isExecuting = TRUE, !.shouldStop = FALSE]

\* faulty variant: a checkpoint that is not there
NoCheck(stop) == FALSE

\* the cancellation checkpoints
StepStopCheck(stop) == stop
AttemptStopCheck(stop) == stop
ReplyStopCheck(stop) == stop
PostRetryStopCheck(stop) == stop
ActionStopCheck(stop) == stop

\* faulty variant: the catch block reports ready as well
terminalStatusReady(reply) == "ready"

\* the terminal STATUS_UPDATE: ready after the loop, error in the catch block
terminalStatus(reply) == IF reply = "error" THEN "error" ELSE "ready"

\* faulty variant: the flags are cleared on the return path only, so a command
\* that throws leaves isExecuting set
finishWithoutFinally(s, reply, how) ==
    [(Locals0 @@ [s EXCEPT !.isExecuting = (reply = "error"), !.shouldStop = FALSE,
                           !.req = [s.req EXCEPT ![s.cur] = reply]])
        EXCEPT !.exit = how,
               !.ui.status = Append(@, terminalStatus(reply)),
               !.ui.running = "false",
               !.histAtCall = IF how \in {"sendFailed", "retryFailed"}
                              THEN s.histAtCall ELSE <<>>]

\* return or catch, then finally: the reply goes out, both flags are cleared
finish(s, reply, how) ==
    [(Locals0 @@ [s EXCEPT !.isExecuting = FALSE, !.shouldStop = FALSE,
                           !.req = [s.req EXCEPT ![s.cur] = reply]])
        EXCEPT !.exit = how,
               !.ui.status = Append(@, terminalStatus(reply)),
               !.ui.running = "false",
               !.histAtCall = IF how \in {"sendFailed", "retryFailed"}
                              THEN s.histAtCall ELSE <<>>]

\* the block-scoped locals of an iteration that the batch no longer reads
perceptionLocals(s) ==
    [s EXCEPT !.pageContext = NoContext, !.questionKey = NoKey,
              !.message = NoMessage, !.attempt = 0]

\* the block-scoped locals of an iteration that the pause no longer reads
decisionLocals(s) ==
    [s EXCEPT !.response = NoResponse, !.gotActions = FALSE, !.i = 0]

\* the top of the step loop: budget, stop check, quiz re-injection
stepTop(s) ==
    IF ~(s.step < maxSteps(s.executionMode)) THEN finish(s, "result", "budget")
    ELSE IF StepStopCheck(s.shouldStop)
    THEN finish([s EXCEPT !.ui.stoppedLog = TRUE], "result", "stopStep")
    ELSE [decisionLocals(perceptionLocals(s))
              EXCEPT !.pc = IF s.executionMode = "quiz" THEN "inject"
                            ELSE "getPageContext",
                     !.hitSnapshot = FALSE, !.executed = <<>>, !.skipped = 0,
                     !.ui.outcome = "", !.ui.actionLog = "", !.ui.shown = -1]

\* the exit test after a batch, then the inter-step pause
afterBatch(s) ==
    LET s1 == [s EXCEPT !.lastSummary = IF s.response.summary # ""
                                        THEN s.response.summary
                                        ELSE "Actions completed.",
                        !.skipped = Len(s.response.actions) - Len(s.executed)]
    IN  IF DoneHonoured(s.response, s.hitSnapshot, s.executionMode)
        THEN finish(s1, "result", "done")
        ELSE decisionLocals([s1 EXCEPT !.pc = "pause"])

\* the head of the action loop for the action at index j (1-based)
actionTop(s, j) ==
    IF j <= Len(s.response.actions) /\ ~ActionStopCheck(s.shouldStop)
    THEN [s EXCEPT !.pc = "executeAction", !.i = j,
                   !.executed = Append(s.executed, j)]
    ELSE afterBatch(s)

\* faulty variant: the quiz mode is left without done
modeSwitchUnguarded(mode, resp) ==
    IF resp.mode \in {"quiz", "normal"} THEN resp.mode ELSE mode

\* the mode switch a decision asks for
modeSwitch(mode, resp) ==
    IF resp.mode = "quiz" /\ mode # "quiz" THEN "quiz"
    ELSE IF resp.mode = "normal" /\ mode = "quiz" /\ isDone(resp) THEN "normal"
    ELSE mode

\* faulty variant: a step without actions never ends the command
NoActionsContinues(stepNo) == FALSE

\* the no-actions branch ends the command at the first step only
NoActionsEnds(stepNo) == stepNo = 0

\* after the retry loop: stop check, the no-actions branch, else the batch
afterRetries(s) ==
    IF PostRetryStopCheck(s.shouldStop)
    THEN finish(s, "result", IF s.response = NoResponse THEN "stopNoCall"
                             ELSE "stopReply")
    ELSE IF ~s.gotActions
    THEN LET s1 == [s EXCEPT !.conversationHistory = SpliceRejected(@),
                             !.ui.gaveUp = TRUE]
         IN  IF NoActionsEnds(s.step) THEN finish(s1, "result", "noActions")
             ELSE stepTop([s1 EXCEPT !.step = @ + 1])
    ELSE actionTop([perceptionLocals(s)
                        EXCEPT !.executionMode = modeSwitch(@, s.response),
                               !.hitSnapshot = FALSE], 1)

\* AIClient.sendMessage up to its first await
callSendMessage(s) ==
    LET c == s.aiClient
        hasScreenshot == s.pageContext.screenshot
        needsVision == hasScreenshot \/ s.pageContext.needsVision
        analyst == /\ c.provider = "groq"
                   /\ needsVision /\ hasScreenshot /\ ~isGroqVisionModel(c.model)
    IN  IF c.provider \notin {"groq", "openrouter"}
        THEN finish([s EXCEPT !.histAtCall = s.conversationHistory],
                    "error", "sendFailed")
        ELSE [s EXCEPT !.pc = IF analyst THEN "visionAnalysis" ELSE "fetch",
                       !.histAtCall = s.conversationHistory]

\* the head of the inner retry loop
attemptTop(s) ==
    IF s.attempt < MAX_RETRIES /\ ~AttemptStopCheck(s.shouldStop)
    THEN callSendMessage(s)
    ELSE afterRetries(s)

\* sendMessage returned `decision`: stop check, acceptance test, re-prompt
afterSend(s, decision) ==
    LET s1 == [s EXCEPT !.response = decision, !.histAtCall = <<>>,
                        !.ui.jsonFailed = FALSE]
    IN  IF ReplyStopCheck(s.shouldStop) THEN afterRetries(s1)
        ELSE IF GotActions(decision)
        THEN afterRetries([s1 EXCEPT !.gotActions = TRUE])
        ELSE IF s.attempt < MAX_RETRIES - 1
        THEN attemptTop([s1 EXCEPT !.conversationHistory = SpliceRejected(@),
                                   !.message = Msg("corrective", ""),
                                   !.attempt = @ + 1])
        ELSE attemptTop([s1 EXCEPT !.attempt = @ + 1])

\* faulty variant: the buffered result is left out of the message
InjectedNever(buffer) == ""

\* the search text appended to the message under === SEARCH RESULTS ===
Injected(buffer) == buffer

\* faulty variant: the buffer survives the message build
ConsumedNever(buffer) == buffer

\* the buffer after the message was built
Consumed(buffer) == ""

\* the user message of the step, with the buffered search result consumed
buildMessage(s) ==
    LET kind == IF s.step = 0 THEN "command"
                ELSE IF s.executionMode = "quiz" THEN "continueQuiz"
                ELSE "continue"
    IN  attemptTop([s EXCEPT !.message = Msg(kind, Injected(s.lastSearchResults)),
                             !.lastSearchResults = Consumed(@), !.ui.gaveUp = FALSE,
                             !.ui.shown = IF s.lastSearchResults # ""
                                          THEN s.ui.from ELSE -1,
                             !.ui.from = -1,
                             !.response = NoResponse, !.gotActions = FALSE,
                             !.attempt = 0])

\* faulty variant: the map is stored after the diff replaced it
StoredAfterDiff(full, sent) == sent

\* what the loop remembers as the previous map
StoredMap(full, sent) == full

\* whether the planner is sent a diff in place of the full map
UsesDiff(mode, stepNo, last, full) ==
    mode = "quiz" /\ stepNo > 0 /\ ~Falsy(last) /\ ~Falsy(full)

\* diff, stored map, quiz auto-detection, automatic search
afterPerception(s) ==
    LET full == s.pageContext.visualMap
        sent == IF UsesDiff(s.executionMode, s.step, s.lastFullVisualMap, full)
                THEN computeMapDiff(s.lastFullVisualMap, full) ELSE full
        ctx == [s.pageContext EXCEPT !.visualMap = sent]
        mode == IF s.step = 0 /\ s.executionMode = "normal" /\ detectQuizMode(ctx)
                THEN "quiz" ELSE s.executionMode
        key == extractQuestionKey(full)
        search == /\ mode = "quiz" /\ s.aiClient.searchEnabled
                  /\ s.lastSearchResults = ""
                  /\ key # NoKey /\ key # s.lastSearchedQuestion
                  /\ extractQuizQuestion(full) # <<>>
        s1 == [s EXCEPT !.pageContext = ctx,
                        !.lastFullVisualMap = StoredMap(full, sent),
                        !.executionMode = mode,
                        !.ui.searched = IF search THEN key
                                        ELSE IF key = @ THEN @ ELSE NoKey]
    IN  IF search THEN [s1 EXCEPT !.pc = "executeSearch", !.questionKey = key]
        ELSE buildMessage(s1)

\* getPageContext returned ctx: vision detection, screenshot retry
afterGetPageContext(s, ctx) ==
    LET needs == detectNeedsVision(ctx)
        s1 == [s EXCEPT !.pageContext = [ctx EXCEPT !.needsVision = needs],
                        !.captured = ctx.visualMap]
    IN  IF needs /\ ~ctx.screenshot THEN [s1 EXCEPT !.pc = "captureScreenshot"]
        ELSE afterPerception(s1)

\* ensureClient after storage.get: the client is rebuilt when a setting changed
clientOf(saved) ==
    [provider |-> IF saved.aiProvider # "" THEN saved.aiProvider ELSE "groq",
     apiKey |-> saved.aiApiKey, model |-> saved.aiModel,
     searchModel |-> saved.searchModel, searchEnabled |-> saved.searchModel # ""]

ensureClient(s) ==
    IF s.storage.aiApiKey = "" \/ s.storage.aiModel = "" THEN finish(s, "error", "error")
    ELSE IF s.aiClient # clientOf(s.storage)
    THEN [s EXCEPT !.aiClient = clientOf(s.storage), !.conversationHistory = <<>>,
                   !.pc = "tabsQuery", !.ui.running = "true"]
    ELSE [s EXCEPT !.pc = "tabsQuery", !.ui.running = "true"]

(***************************************************************************)
(* The selector heuristic of getVisualPageMap.  A document is the sequence *)
(* of its elements in document order; an element records its tag, id,     *)
(* class list, aria-label, data-testid, name and the index of its parent   *)
(* (0 for document.body).  A selector is its kind with its value, or the   *)
(* parts of a child-combinator path, each a tag with its :nth-of-type      *)
(* index (0 when the part carries none).                                   *)
(***************************************************************************)
Node(tag, id, classes, aria, testid, name, parent) ==
    [tag |-> tag, id |-> id, classes |-> classes, aria |-> aria,
     testid |-> testid, name |-> name, parent |-> parent]

Sel(kind, v) == [kind |-> kind, v |-> v, parts |-> <<>>]

\* the position of element k among the children of its parent with its tag,
\* and how many such children there are
TypeIndex(doc, k) ==
    Cardinality({m \in 1..k : doc[m].parent = doc[k].parent /\ doc[m].tag = doc[k].tag})
TypeCount(doc, k) ==
    Cardinality({m \in 1..Len(doc) :
                    doc[m].parent = doc[k].parent /\ doc[m].tag = doc[k].tag})

\* element k matches the first j parts of a path a > b > c
RECURSIVE PathMatches(_, _, _, _)
PathMatches(doc, k, parts, j) ==
    /\ doc[k].tag = parts[j].tag
    /\ parts[j].nth = 0 \/ TypeIndex(doc, k) = parts[j].nth
    /\ j = 1 \/ (doc[k].parent # 0 /\ PathMatches(doc, doc[k].parent, parts, j - 1))

\* document.querySelectorAll(sel)
querySelectorAll(doc, sel) ==
    {k \in 1..Len(doc) :
        CASE sel.kind = "id" -> doc[k].id = sel.v
          [] sel.kind = "class" -> \E c \in 1..Len(doc[k].classes) :
                                      doc[k].classes[c] = sel.v
          [] sel.kind = "aria" -> doc[k].aria = sel.v
          [] sel.kind = "testid" -> doc[k].testid = sel.v
          [] sel.kind = "name" -> doc[k].name = sel.v
          [] OTHER -> sel.parts # <<>> /\ PathMatches(doc, k, sel.parts, Len(sel.parts))}

PathDepth == 4

\* the nth-child fallback: from the element up, at most PathDepth parts
RECURSIVE PathParts(_, _, _)
PathParts(doc, current, room) ==
    IF current = 0 \/ room = 0 THEN <<>>
    ELSE Append(PathParts(doc, doc[current].parent, room - 1),
                [tag |-> doc[current].tag,
                 nth |-> IF TypeCount(doc, current) > 1
                         THEN TypeIndex(doc, current) ELSE 0])

getSelector(doc, el) ==
    LET e == doc[el]
        only(sel) == Cardinality(querySelectorAll(doc, sel)) = 1
        classes == SelectSeq(e.classes, LAMBDA c : only(Sel("class", c)))
    IN  IF e.id # "" THEN Sel("id", e.id)
        ELSE IF classes # <<>> THEN Sel("class", classes[1])
        ELSE IF e.aria # "" /\ only(Sel("aria", e.aria)) THEN Sel("aria", e.aria)
        ELSE IF e.testid # "" THEN Sel("testid", e.testid)
        ELSE IF e.name # "" /\ only(Sel("name", e.name)) THEN Sel("name", e.name)
        ELSE [kind |-> "path", v |-> "", parts |-> PathParts(doc, el, PathDepth)]

(***************************************************************************)
(* AIClient._parseResponse over reply texts cut into tokens: "{" "}" "["   *)
(* "]" ",", "K" (the key "actions" with its colon), "k" (any other key     *)
(* with its colon), "v" (a scalar), "p" (words of prose) and "F" (a ```    *)
(* fence, with or without json).  A parsed value is written as the tokens  *)
(* of its text.                                                            *)
(***************************************************************************)
RECURSIVE valueEnd(_, _), membersEnd(_, _), elementsEnd(_, _)

\* JSON.parse: the index after the JSON value that starts at t[at], 0 if
\* none starts there
valueEnd(t, at) ==
    IF at > Len(t) THEN 0
    ELSE IF t[at] = "v" THEN at + 1
    ELSE IF t[at] = "{"
    THEN IF at < Len(t) /\ t[at + 1] = "}" THEN at + 2 ELSE membersEnd(t, at + 1)
    ELSE IF t[at] = "["
    THEN IF at < Len(t) /\ t[at + 1] = "]" THEN at + 2 ELSE elementsEnd(t, at + 1)
    ELSE 0

\* the members of an object from t[at] to its closing brace
membersEnd(t, at) ==
    IF at > Len(t) \/ t[at] \notin {"K", "k"} THEN 0
    ELSE LET e == valueEnd(t, at + 1)
         IN  IF e = 0 \/ e > Len(t) THEN 0
             ELSE IF t[e] = "}" THEN e + 1
             ELSE IF t[e] = "," THEN membersEnd(t, e + 1)
             ELSE 0

\* the elements of an array from t[at] to its closing bracket
elementsEnd(t, at) ==
    LET e == valueEnd(t, at)
    IN  IF e = 0 \/ e > Len(t) THEN 0
        ELSE IF t[e] = "]" THEN e + 1
        ELSE IF t[e] = "," THEN elementsEnd(t, e + 1)
        ELSE 0

Positions(t, toks) == {j \in 1..Len(t) : t[j] \in toks}
Lowest(S) == CHOOSE j \in S : \A m \in S : j <= m
Highest(S) == CHOOSE j \in S : \A m \in S : m <= j

\* faulty variant: any JSON value is taken for a decision
isJsonValue(t) == t # <<>> /\ valueEnd(t, 1) = Len(t) + 1

\* JSON.parse(t) succeeds and Array.isArray(parsed.actions): t is one JSON
\* value, an object, and the value of its (last) actions key is an array
isActionsObject(t) ==
    /\ t # <<>> /\ valueEnd(t, 1) = Len(t) + 1 /\ t[1] = "{"
    /\ LET depth(j) == Cardinality(Positions(SubSeq(t, 1, j - 1), {"{", "["}))
                         - Cardinality(Positions(SubSeq(t, 1, j - 1), {"}", "]"}))
           keys == {j \in Positions(t, {"K"}) : depth(j) = 1}
       IN  keys # {} /\ t[Highest(keys) + 1] = "["

\* trim and the two replaces that strip the code fences
cleaned(text) ==
    IF text # <<>> /\ Head(text) = "F"
    THEN LET rest == Tail(text)
         IN  IF rest # <<>> /\ rest[Len(rest)] = "F"
             THEN SubSeq(rest, 1, Len(rest) - 1) ELSE rest
    ELSE text

\* cleaned.match(/\{[\s\S]*"actions"\s*:\s*\[[\s\S]*?\][\s\S]*?\}/): from the
\* first brace, greedily to the last "actions": [, lazily to the next ] and
\* lazily to the next }; <<>> is null
jsonMatch(t) ==
    LET keys(s) == {a \in (s + 1)..(Len(t) - 1) :
                      /\ t[a] = "K" /\ t[a + 1] = "["
                      /\ \E b \in (a + 2)..Len(t) :
                            t[b] = "]" /\ \E c \in (b + 1)..Len(t) : t[c] = "}"}
        starts == {s \in Positions(t, {"{"}) : keys(s) # {}}
    IN  IF starts = {} THEN <<>>
        ELSE LET s == Lowest(starts)
                 a == Highest(keys(s))
                 b == Lowest({m \in (a + 2)..Len(t) : t[m] = "]"})
                 c == Lowest({m \in (b + 1)..Len(t) : t[m] = "}"})
             IN  SubSeq(t, s, c)

\* cleaned.match(/\{[\s\S]*\}/): from the first brace to the last closing one
anyJson(t) ==
    LET opens == Positions(t, {"{"})
        closes == Positions(t, {"}"})
    IN  IF opens = {} \/ closes = {} \/ Highest(closes) < Lowest(opens) THEN <<>>
        ELSE SubSeq(t, Lowest(opens), Highest(closes))

\* the fallback object with empty actions
Fallback == <<"fallback">>

parseResponse(text) ==
    IF isActionsObject(cleaned(text)) THEN cleaned(text)
    ELSE IF isActionsObject(jsonMatch(cleaned(text))) THEN jsonMatch(cleaned(text))
    ELSE IF isActionsObject(anyJson(cleaned(text))) THEN anyJson(cleaned(text))
    ELSE Fallback

(***************************************************************************)
(* Snapshot service and page probe: getPageContext,                        *)
(* collectAllFrameVisualMaps, sendMessageWithTimeout, captureScreenshot    *)
(* and the frame dispatch of executeAction, cut at their awaits, with the  *)
(* content script of every frame of the tab.                               *)
(*   frames[f]   behave: "ok" (answers), "wedged" (never answers),         *)
(*               "restricted" (no script can run in it), "blank" (not an   *)
(*               http(s) frame); injected: window.__aiControllerInjected;  *)
(*               listeners: onMessage handlers of the content script;      *)
(*               runs: how often the latest EXECUTE_ACTION message ran;    *)
(*               again: the script was run in a document that held it      *)
(*   inflight    [frame, type, abandoned]: abandoned once the timer of     *)
(*               sendMessageWithTimeout resolved the caller with null      *)
(*   chromeDebugger  attached: a debug session of the extension is open on *)
(*               the tab; tabOpen; detachSeen: a detach event has removed  *)
(*               the tab from debuggerAttachedTabs                         *)
(***************************************************************************)
FrameIds == 0..MaxChildFrames
TabId == "tab"

Probe(behave, installed) ==
    [behave |-> behave, injected |-> installed,
     listeners |-> IF installed THEN 1 ELSE 0, runs |-> 0, again |-> FALSE]

\* faulty variant: the content script without its double-injection guard
injectUnguarded(p) ==
    IF p.behave \in {"ok", "wedged"}
    THEN [p EXCEPT !.injected = TRUE, !.listeners = IF @ < 2 THEN @ + 1 ELSE @,
                   !.again = p.injected]
    ELSE p

\* content.js run in a frame: the guard returns before anything is installed
inject(p) ==
    IF p.behave \in {"ok", "wedged"}
    THEN IF p.injected
         THEN [p EXCEPT !.again = TRUE]
         ELSE [p EXCEPT !.injected = TRUE, !.listeners = @ + 1]
    ELSE p

\* the map getVisualPageMap of frame f returns
FrameMap(f) == IF f = 0 THEN TopFrameMap ELSE ImageFrameMap

Request(f, type) == [frame |-> f, type |-> type, abandoned |-> FALSE]

NoPage == [dom |-> "", visualMap |-> Undefined, screenshot |-> FALSE]

Svc0 ==
    [pc |-> "idle", mode |-> "normal", list |-> <<>>, k |-> 0, maps |-> <<>>,
     retrying |-> FALSE, retry |-> 0, context |-> NoPage, result |-> ""]

ServiceIdle ==
    /\ debuggerAttachedTabs = {}
    /\ chromeDebugger = [attached |-> FALSE, tabOpen |-> TRUE, detachSeen |-> FALSE]
    /\ frames = [f \in FrameIds |-> Probe("ok", TRUE)]
    /\ inflight = {}
    /\ svc = Svc0
    /\ ui = Ui0
    /\ responseText = <<>>
    /\ dom = <<>> /\ emitted = <<>>

QuizRetries == 3

\* the awaits whose message is sent through sendMessageWithTimeout
TimedAwaits == {"collect.fallback", "collect.map"}

\* faulty variant: the request to the following frame is sent along with it
sendAhead(s, f, type, at) ==
    [s EXCEPT !.inflight = @ \cup {Request(g, type) : g \in {f, f + 1} \cap FrameIds},
              !.svc.pc = at]

send(s, f, type, at) ==
    [s EXCEPT !.inflight = @ \cup {Request(f, type)}, !.svc.pc = at]

\* getPageContext returns its context
returnContext(s) ==
    [s EXCEPT !.svc = [Svc0 EXCEPT !.context = s.svc.context, !.result = "context"]]

\* faulty variant: attachDebugger without its test of debuggerAttachedTabs
captureScreenshotAlwaysAttach(s) == [s EXCEPT !.svc.pc = "shot.attach"]

\* attachDebugger up to its await, or on to Page.captureScreenshot
captureScreenshot(s) ==
    IF TabId \in s.debuggerAttachedTabs
    THEN [s EXCEPT !.svc.pc = "shot.command"]
    ELSE [s EXCEPT !.svc.pc = "shot.attach"]

\* getPageContext after a collectAllFrameVisualMaps returned map; maps keeps
\* the replies the map was made of until getPageContext returns
afterCollect(s, map) ==
    LET t == [s EXCEPT !.svc.context.visualMap = map,
                       !.svc.list = <<>>, !.svc.k = 0]
        missing == ~MapIncludes(map, "=== IFRAME CONTENT")
    IN  IF ~s.svc.retrying
        THEN IF s.svc.mode = "quiz" /\ ~Falsy(map) /\ missing
             THEN [t EXCEPT !.svc.retrying = TRUE, !.svc.retry = 0,
                            !.svc.pc = "gpc.retrySleep"]
             ELSE captureScreenshot(t)
        ELSE IF ~missing \/ s.svc.retry + 1 >= QuizRetries
             THEN captureScreenshot([t EXCEPT !.svc.retrying = FALSE])
             ELSE [t EXCEPT !.svc.retry = @ + 1, !.svc.pc = "gpc.retrySleep"]

\* the head of the frame loop of collectAllFrameVisualMaps, or its merge
collectNext(s) ==
    IF s.svc.k <= Len(s.svc.list)
    THEN [s EXCEPT !.svc.pc = "collect.inject"]
    ELSE afterCollect(s, mergeFrameMaps(s.svc.maps))

\* the awaited frame message m settled with outcome "reply", "error" or
\* "null" (the timer)
settle(s, m, outcome) ==
    CASE s.svc.pc = "gpc.dom" ->
            [s EXCEPT !.svc.context.dom =
                          IF outcome = "reply" THEN "dom" ELSE "[Could not inspect]",
                      !.svc.pc = "collect.frames"]
      [] s.svc.pc = "collect.fallback" ->
            afterCollect([s EXCEPT !.svc.maps =
                              IF outcome = "reply"
                              THEN <<Frame(0, TRUE, FrameMap(0))>> ELSE <<>>],
                         IF outcome = "reply" THEN FrameMap(m.frame) ELSE <<>>)
      [] s.svc.pc = "collect.map" ->
            collectNext([s EXCEPT
                !.svc.maps = IF outcome = "reply"
                             THEN Append(@, Frame(m.frame, m.frame = 0, FrameMap(m.frame)))
                             ELSE @,
                !.svc.k = @ + 1])
      [] s.svc.pc = "act.send" ->
            [s EXCEPT !.svc = [Svc0 EXCEPT !.result =
                                   IF outcome = "reply" THEN "result" ELSE "throw"]]

(***************************************************************************)
(* Environments: the sets the inputs of the actions are drawn from.        *)
(***************************************************************************)
Page(map, keywords, shot) ==
    [visualMap |-> map, keywords |-> keywords, screenshot |-> shot,
     needsVision |-> FALSE]

Saved(provider, key, model, searchModel) ==
    [aiProvider |-> provider, aiApiKey |-> key, aiModel |-> model,
     searchModel |-> searchModel]

ActionTypes == {"click", "describe", "snapshot", "screenshot", "search", "drag"}

\* every batch of at most n actions
RECURSIVE Batches(_)
Batches(n) ==
    IF n = 0 THEN {<<>>}
    ELSE LET shorter == Batches(n - 1)
         IN  shorter \cup {Append(b, Action(t)) : b \in shorter, t \in ActionTypes}

Replies == {"ok", "empty", "model_missing", "json_validate_failed", "error", "throw"}

Click(done, mode) == Decision(<<Action("click")>>, done, mode, "summary")

\* a page with an iframe that shows a question and a large image, and nothing
\* the quiz detector scores
MixedFrameMap ==
    <<MapHeader, Summary, Blank,
      El("[P] sel=.stem Capital of France?", {}, ".stem", "Capital of France?", <<>>),
      El("[IMG] sel=.figure", {"[IMG]", "w>=50", "h>=50", "text<10", "text<3"},
         ".figure", "", <<>>)>>
MixedMap ==
    mergeFrameMaps(<<Frame(0, TRUE, TopFrameMap), Frame(7, FALSE, MixedFrameMap)>>)

\* the control environment: several commands, every reply kind, a missing
\* key, a missing tab, and a few decisions for the first MaxFreeCalls planner
\* replies of a command
EnvLoop ==
    [pages |-> {Page(MixedMap, {}, FALSE)},
     tabs |-> BOOLEAN,
     answers |-> {"", "Paris"},
     outcomes |-> {"ok", "fail", "throw"},
     replies |-> Replies,
     decisions |-> {Decision(<<Action("click"), Action("click")>>, TRUE, "normal",
                             "summary"),
                    NeutralDecision,
                    Decision(<<Action("drag"), Action("click")>>, FALSE, "quiz",
                             "summary")},
     closing |-> {Click(TRUE, "none")},
     free |-> MaxFreeCalls,
     persistent |-> FALSE,
     commands |-> MaxRequests,
     storages |-> {Saved("groq", "key", "llama-3", "compound"),
                   Saved("groq", "", "", "")}]

\* the perception environment: every page kind, one command
EnvPages ==
    [pages |-> {Page(PlainMap, {}, TRUE), Page(MixedMap, {}, FALSE),
                Page(ImageMap, {}, FALSE), Page(Undefined, {}, FALSE),
                Page(QuizMap(FALSE, <<1, 2>>), {}, FALSE),
                Page(QuizMap(TRUE, <<1, 2>>), {}, FALSE),
                Page(QuizMap(FALSE, <<2, 2>>), {}, FALSE)},
     tabs |-> {TRUE},
     answers |-> {"", "Paris"},
     outcomes |-> {"ok"},
     replies |-> {"ok", "json_validate_failed", "error"},
     decisions |-> {Click(FALSE, "none"), Click(FALSE, "normal"), Click(TRUE, "normal"),
                    Decision(<<Action("describe")>>, FALSE, "quiz", "summary"),
                    Decision(<<Action("drag"), Action("click")>>, FALSE, "quiz",
                             "summary"),
                    Decision(<<Action("search")>>, FALSE, "none", "summary")},
     closing |-> {Click(TRUE, "none")},
     free |-> MaxFreeCalls,
     persistent |-> FALSE,
     commands |-> 1,
     storages |-> {Saved("groq", "key", "llama-3", "compound")}]

\* the long-run environment: one page, one configuration, a few decisions of a
\* persistent planner, and no closing set, so that a command can use its whole
\* budget
EnvBudget ==
    [pages |-> {Page(MixedMap, {}, FALSE)},
     tabs |-> {TRUE},
     answers |-> {"Paris"},
     outcomes |-> {"ok"},
     replies |-> {"ok", "json_validate_failed", "error"},
     decisions |-> {},
     closing |-> {Click(FALSE, "none"), NeutralDecision,
                  Decision(<<Action("describe")>>, FALSE, "none", "summary"),
                  Decision(<<Action("drag")>>, FALSE, "quiz", "summary")},
     free |-> 0,
     persistent |-> TRUE,
     commands |-> 1,
     storages |-> {Saved("groq", "key", "llama-3", "compound"),
                   Saved("openrouter", "key", "gpt", "")}]

\* the batch environment: every batch of at most MaxActions actions with every
\* done flag and mode for the first MaxFreeCalls planner replies
EnvBatch ==
    [pages |-> {Page(MixedMap, {}, FALSE)},
     tabs |-> {TRUE},
     answers |-> {"Paris"},
     outcomes |-> {"ok", "fail", "throw"},
     replies |-> {"ok", "json_validate_failed", "error"},
     decisions |-> {Decision(b, d, m, "summary") :
                        b \in Batches(MaxActions), d \in BOOLEAN,
                        m \in {"none", "normal", "quiz"}},
     closing |-> {Click(TRUE, "none")},
     free |-> MaxFreeCalls,
     persistent |-> FALSE,
     commands |-> 1,
     storages |-> {Saved("groq", "key", "llama-3", "compound")}]

\* the termination environment: one command on a page that needs a
\* screenshot, a planner that may go on for the whole budget, finish, or return
\* no action, and every way a command is cut short (no key, no tab, provider
\* errors, a throwing action)
EnvLive ==
    [pages |-> {Page(MixedMap, {}, FALSE)},
     tabs |-> BOOLEAN,
     answers |-> {"Paris"},
     outcomes |-> {"ok", "throw"},
     replies |-> {"ok", "json_validate_failed", "error"},
     decisions |-> {},
     closing |-> {Click(FALSE, "none"), Click(TRUE, "none"), NeutralDecision,
                  Decision(<<Action("drag")>>, FALSE, "quiz", "summary")},
     free |-> 0,
     persistent |-> TRUE,
     commands |-> 1,
     storages |-> {Saved("groq", "key", "llama-3", "compound"),
                   Saved("groq", "", "", "")}]

\* the environment named by the variable env
Env == CASE env = "loop" -> EnvLoop
       [] env = "pages" -> EnvPages
       [] env = "budget" -> EnvBudget
       [] env = "batch" -> EnvBatch
       [] env = "live" -> EnvLive

(***************************************************************************)
(* The maps computeMapDiff is applied to: every document the merge of      *)
(* collectAllFrameVisualMaps yields from a top frame (or none, when it did *)
(* not reply) and at most MaxIframes child frames, each frame showing one  *)
(* of a few element lists.                                                 *)
(***************************************************************************)
ElementLists ==
    {<<>>,
     <<El("[*BUTTON] sel=#next Next", {"[*"}, "#next", "Next", <<>>)>>,
     <<El("[P] sel=.stem Capital of France?", {}, ".stem", "Capital of France?", <<>>)>>}

\* every list of at most n child frames, each given by the elements it shows
RECURSIVE ChildLists(_)
ChildLists(n) ==
    IF n = 0 THEN {<<>>}
    ELSE LET shorter == ChildLists(n - 1)
         IN  shorter \cup {Append(f, els) : f \in shorter, els \in ElementLists}

DiffMaps ==
    LET FrameMapOf(els) == <<MapHeader, Summary, Blank>> \o els
        Children(kids) == [k \in 1..Len(kids) |-> Frame(k, FALSE, FrameMapOf(kids[k]))]
    IN  {mergeFrameMaps(top \o Children(kids)) :
            top \in {<<>>} \cup {<<Frame(0, TRUE, FrameMapOf(els))>> : els \in ElementLists},
            kids \in ChildLists(MaxIframes)}

\* the orders in which up to n of the tiles of a question can stand
RECURSIVE TileLists(_)
TileLists(n) ==
    IF n = 0 THEN {<<>>}
    ELSE LET shorter == TileLists(n - 1)
             longer == {Append(l, d) : l \in {x \in shorter : Len(x) = n - 1},
                                       d \in 1..MaxTiles}
         IN  shorter \cup {x \in longer : \A k \in 1..(n - 1) : x[k] # x[n]}

\* the map of a drag-and-drop question: its counter, its stem and its tiles
TileMap(item, tiles, counterFirst) ==
    LET counter == <<El("[DIV] sel=.counter N of M Items", {"Item "}, ".counter",
                        "N of M Items", item)>>
        stem == <<El("[P] sel=.stem Order the planets", {"question"}, ".stem",
                     "Order the planets", <<>>)>>
        tile(d) == El("[*DIV] sel=.tile [draggable]", {"[*", "[draggable]"},
                      ToString(d), ToString(d), <<>>)
        body == [k \in 1..Len(tiles) |-> tile(tiles[k])]
        count == Line("", "Viewport: 1280x720 | Scroll: 0,0 | Total elements: N",
                      {}, "", "", <<>>, Len(tiles) + 2, <<>>)
        frame == <<MapHeader, count, Blank>> \o
                 (IF counterFirst THEN counter \o stem \o body
                  ELSE stem \o body \o counter)
    IN  mergeFrameMaps(<<Frame(0, TRUE, TopFrameMap), Frame(7, FALSE, frame)>>)

TileMaps ==
    {TileMap(item, tiles, first) : item \in {<<1, 5>>, <<2, 5>>},
                                   tiles \in TileLists(MaxTiles), first \in BOOLEAN}

(***************************************************************************)
(* Actions: the message handlers and the completion of every await.        *)
(***************************************************************************)
Running == pc # "idle"

\* onMessage EXECUTE_COMMAND: rejected as busy, or claims the flags and starts
ExecuteCommand ==
    \E r \in Requests :
        /\ r <= Env.commands
        /\ req[r] = "unsent"
        /\ \A q \in 1..(r - 1) : req[q] # "unsent"
        /\ IF IsBusy(isExecuting)
           THEN Set([St EXCEPT !.req = [req EXCEPT ![r] = "busy"]])
           ELSE Set([entryFlags(Locals0 @@ St)
                        EXCEPT !.req = [req EXCEPT ![r] = "running"],
                               !.cur = r, !.pc = "ensureClient",
                               !.stopAt = stopAt, !.ui = Ui0])

\* onMessage STOP_EXECUTION
StopExecution ==
    /\ shouldStop' = TRUE
    /\ stopAt' = IF shouldStop THEN stopAt ELSE pc
    /\ UNCHANGED <<env, storage, isExecuting, aiClient, conversationHistory, req,
                   cur, pc, step, executionMode, lastFullVisualMap,
                   lastSearchResults, lastSearchedQuestion, lastSummary,
                   pageContext, questionKey, message, attempt, response,
                   gotActions, i, hitSnapshot, exit, executed, captured,
                   histAtCall, skipped, calls, debuggerAttachedTabs,
                   chromeDebugger, frames, inflight, svc, ui,
                   responseText, dom, emitted>>

\* onMessage CLEAR_HISTORY
ClearHistory ==
    /\ aiClient # NoClient
    /\ conversationHistory # <<>>
    /\ Set([St EXCEPT !.conversationHistory = <<>>,
                      !.histAtCall = IF pc \in {"visionAnalysis", "fetch"}
                                     THEN <<>> ELSE @])

EnsureClientDone ==
    /\ pc = "ensureClient"
    /\ Set(ensureClient([St EXCEPT !.stopAt = IF shouldStop THEN @ ELSE ""]))

\* chrome.tabs.query: no active tab throws
TabsQueryDone ==
    /\ pc = "tabsQuery"
    /\ \E tab \in Env.tabs :
          Set(IF tab THEN stepTop([St EXCEPT !.step = 0]) ELSE finish(St, "error", "error"))

\* the quiz-mode re-injection of the probe
InjectDone ==
    /\ pc = "inject"
    /\ Set([St EXCEPT !.pc = "getPageContext"])

GetPageContextDone ==
    /\ pc = "getPageContext"
    /\ \E ctx \in Env.pages : Set(afterGetPageContext(St, ctx))

\* the screenshot retry of a page that needs vision; a failure is swallowed
CaptureScreenshotDone ==
    /\ pc = "captureScreenshot"
    /\ \E shot \in BOOLEAN :
          Set(afterPerception([St EXCEPT !.pageContext.screenshot = shot]))

\* the automatic search: a non-empty answer is buffered and its key remembered
ExecuteSearchDone ==
    /\ pc = "executeSearch"
    /\ \E answer \in Env.answers :
          Set(buildMessage(IF answer # ""
                           THEN [St EXCEPT !.lastSearchResults = answer,
                                           !.lastSearchedQuestion = questionKey,
                                           !.ui.from = step]
                           ELSE St))

\* _getVisionAnalysis returned (text or null)
VisionAnalysisDone ==
    /\ pc = "visionAnalysis"
    /\ Set([St EXCEPT !.pc = "fetch"])

\* the decisions the planner may return now; a persistent planner answers a
\* re-prompt the way it answered the prompt, with no usable action
Offered ==
    LET all == IF calls < Env.free THEN Env.decisions ELSE Env.closing
    IN  IF Env.persistent /\ attempt > 0 THEN {d \in all : ~GotActions(d)}
        ELSE all
Counted(n) == IF n < Env.free THEN n + 1 ELSE n

\* the primary chat-completions request of sendMessage returned
FetchDone ==
    /\ pc = "fetch"
    /\ \E reply \in Env.replies :
          \/ /\ reply = "ok"
             /\ \E d \in Offered :
                   Set(afterSend([St EXCEPT !.conversationHistory =
                                     _trimHistory(PushPair(@, message, d.summary)),
                                            !.calls = Counted(@)], d))
          \/ /\ reply = "json_validate_failed" /\ aiClient.provider = "groq"
             /\ Set([St EXCEPT !.conversationHistory = historyForRetry(@),
                               !.ui.jsonFailed = TRUE,
                               !.pc = "retryFetch"])
          \/ /\ \/ reply \in {"throw", "empty", "model_missing", "error"}
                \/ reply = "json_validate_failed" /\ aiClient.provider # "groq"
             /\ Set(finish([St EXCEPT !.ui.jsonFailed =
                                         (reply = "json_validate_failed")],
                           "error", "sendFailed"))

\* the command-only retry after json_validate_failed returned
RetryFetchDone ==
    /\ pc = "retryFetch"
    /\ \E reply \in Env.replies :
          \/ /\ reply = "ok"
             /\ \E d \in Offered :
                   Set(afterSend([St EXCEPT !.conversationHistory =
                                     PushPair(@, message, d.summary),
                                            !.calls = Counted(@)], d))
          \/ /\ reply # "ok"
             /\ Set(finish(St, "error", "retryFailed"))

\* the text executeAction returns for a search action
SearchText(enabled, answer) ==
    IF ~enabled THEN "Search not configured."
    ELSE IF answer = "" THEN "Search returned no results."
    ELSE answer

\* executeAction returned or threw; a failure is only logged
ExecuteActionDone ==
    /\ pc = "executeAction"
    /\ \E answer \in Env.answers, outcome \in Env.outcomes :
          LET action == response.actions[i]
              s0 == [St EXCEPT !.ui.outcome = outcome,
                               !.ui.actionLog = actionLogLevel(outcome)]
              s1 == IF action.type = "search"
                    THEN [s0 EXCEPT !.lastSearchResults =
                             SearchText(aiClient.searchEnabled, answer),
                                    !.ui.from = step]
                    ELSE s0
          IN  Set(IF ~ActionErrorCaught(outcome)
                  THEN finish(s1, "error", "error")
                  ELSE IF isBreakPoint(action)
                  THEN afterBatch([s1 EXCEPT !.hitSnapshot = TRUE])
                  ELSE IF IsQuizDrag(action, executionMode)
                  THEN [s1 EXCEPT !.pc = "dragSettle"]
                  ELSE actionTop(s1, i + 1))

\* the 800 ms settle after a quiz drag
DragSettleDone ==
    /\ pc = "dragSettle"
    /\ Set(IF i < Len(response.actions)
           THEN afterBatch([St EXCEPT !.hitSnapshot = TRUE])
           ELSE actionTop(St, i + 1))

\* the inter-step pause
PauseDone ==
    /\ pc = "pause"
    /\ Set(stepTop([St EXCEPT !.step = @ + 1]))

Next ==
    \/ ExecuteCommand
    \/ StopExecution
    \/ ClearHistory
    \/ EnsureClientDone
    \/ TabsQueryDone
    \/ InjectDone
    \/ GetPageContextDone
    \/ CaptureScreenshotDone
    \/ ExecuteSearchDone
    \/ VisionAnalysisDone
    \/ FetchDone
    \/ RetryFetchDone
    \/ ExecuteActionDone
    \/ DragSettleDone
    \/ PauseDone

(***************************************************************************)
(* Specifications.                                                         *)
(***************************************************************************)
InitWith(e) ==
    /\ env = e
    /\ storage \in Env.storages
    /\ isExecuting = FALSE /\ shouldStop = FALSE
    /\ aiClient = NoClient /\ conversationHistory = <<>>
    /\ req = [r \in Requests |-> "unsent"]
    /\ cur = Locals0.cur /\ pc = Locals0.pc /\ step = Locals0.step
    /\ executionMode = Locals0.executionMode
    /\ lastFullVisualMap = Locals0.lastFullVisualMap
    /\ lastSearchResults = Locals0.lastSearchResults
    /\ lastSearchedQuestion = Locals0.lastSearchedQuestion
    /\ lastSummary = Locals0.lastSummary /\ pageContext = Locals0.pageContext
    /\ questionKey = Locals0.questionKey /\ message = Locals0.message
    /\ attempt = Locals0.attempt /\ response = Locals0.response
    /\ gotActions = Locals0.gotActions /\ i = Locals0.i
    /\ hitSnapshot = Locals0.hitSnapshot /\ exit = Locals0.exit
    /\ stopAt = Locals0.stopAt
    /\ executed = Locals0.executed /\ captured = Locals0.captured
    /\ histAtCall = Locals0.histAtCall /\ skipped = Locals0.skipped
    /\ calls = Locals0.calls
    /\ ServiceIdle

Init == InitWith("loop")

Spec == Init /\ [][Next]_vars

InitPages == InitWith("pages")
SpecPages == InitPages /\ [][Next]_vars

InitBudget == InitWith("budget")
SpecBudget == InitBudget /\ [][Next]_vars

InitBatch == InitWith("batch")
SpecBatch == InitBatch /\ [][Next]_vars

\* the awaits of the loop whose completion does not run the perception of the
\* step
Completions ==
    \/ EnsureClientDone \/ TabsQueryDone \/ InjectDone \/ ExecuteSearchDone
    \/ VisionAnalysisDone \/ FetchDone \/ RetryFetchDone \/ ExecuteActionDone
    \/ DragSettleDone \/ PauseDone

\* every awaited operation eventually completes.  GetPageContextDone and
\* CaptureScreenshotDone are enabled exactly at their pc and leave it, so weak
\* fairness of each is that the loop is infinitely often not at that pc
InitLive == InitWith("live")
SpecLive ==
    /\ InitLive /\ [][Next]_vars
    /\ WF_vars(Completions)
    /\ []<>(pc # "getPageContext") /\ []<>(pc # "captureScreenshot")

\* extractQuestionKey on its own: the key of the map of the last search and
\* the key of the map of this step
ExtractQuestionKeyDone ==
    /\ env = "keys" /\ pc = "idle"
    /\ Set([St EXCEPT !.lastSearchedQuestion = extractQuestionKey(lastFullVisualMap),
                      !.questionKey = extractQuestionKey(captured),
                      !.pc = "keyed"])

InitKeys ==
    /\ env = "keys"
    /\ storage = Saved("groq", "key", "llama-3", "compound")
    /\ isExecuting = FALSE /\ shouldStop = FALSE
    /\ aiClient = NoClient /\ conversationHistory = <<>>
    /\ req = [r \in Requests |-> "unsent"]
    /\ cur = Locals0.cur /\ pc = Locals0.pc /\ step = Locals0.step
    /\ executionMode = Locals0.executionMode
    /\ lastFullVisualMap \in TileMaps
    /\ lastSearchResults = Locals0.lastSearchResults
    /\ lastSearchedQuestion = Locals0.lastSearchedQuestion
    /\ lastSummary = Locals0.lastSummary /\ pageContext = Locals0.pageContext
    /\ questionKey = Locals0.questionKey /\ message = Locals0.message
    /\ attempt = Locals0.attempt /\ response = Locals0.response
    /\ gotActions = Locals0.gotActions /\ i = Locals0.i
    /\ hitSnapshot = Locals0.hitSnapshot /\ exit = Locals0.exit
    /\ stopAt = Locals0.stopAt
    /\ executed = Locals0.executed /\ captured \in TileMaps
    /\ histAtCall = Locals0.histAtCall /\ skipped = Locals0.skipped
    /\ calls = Locals0.calls
    /\ ServiceIdle
SpecKeys == InitKeys /\ [][ExtractQuestionKeyDone]_vars

\* computeMapDiff on its own: the old map is drawn first, then the function is
\* applied to it and to any new map
ComputeMapDiffDone ==
    /\ env = "diff" /\ pc = "idle"
    /\ \E newMap \in DiffMaps :
          /\ captured' = newMap
          /\ pageContext' = [NoContext EXCEPT
                                !.visualMap = computeMapDiff(lastFullVisualMap, newMap)]
    /\ pc' = "diffed"
    /\ UNCHANGED <<env, storage, isExecuting, shouldStop, aiClient,
                   conversationHistory, req, cur, step, executionMode,
                   lastFullVisualMap, lastSearchResults, lastSearchedQuestion,
                   lastSummary, questionKey, message, attempt, response,
                   gotActions, i, hitSnapshot, exit, stopAt, executed, histAtCall,
                   skipped, calls, debuggerAttachedTabs, chromeDebugger, frames,
                   inflight, svc, ui,
                   responseText, dom, emitted>>

InitDiff ==
    /\ env = "diff"
    /\ storage = Saved("groq", "key", "llama-3", "compound")
    /\ isExecuting = FALSE /\ shouldStop = FALSE
    /\ aiClient = NoClient /\ conversationHistory = <<>>
    /\ req = [r \in Requests |-> "unsent"]
    /\ cur = Locals0.cur /\ pc = Locals0.pc /\ step = Locals0.step
    /\ executionMode = Locals0.executionMode
    /\ lastFullVisualMap \in DiffMaps \cup {Undefined}
    /\ lastSearchResults = Locals0.lastSearchResults
    /\ lastSearchedQuestion = Locals0.lastSearchedQuestion
    /\ lastSummary = Locals0.lastSummary /\ pageContext = Locals0.pageContext
    /\ questionKey = Locals0.questionKey /\ message = Locals0.message
    /\ attempt = Locals0.attempt /\ response = Locals0.response
    /\ gotActions = Locals0.gotActions /\ i = Locals0.i
    /\ hitSnapshot = Locals0.hitSnapshot /\ exit = Locals0.exit
    /\ stopAt = Locals0.stopAt
    /\ executed = Locals0.executed /\ captured = Locals0.captured
    /\ histAtCall = Locals0.histAtCall /\ skipped = Locals0.skipped
    /\ calls = Locals0.calls
    /\ ServiceIdle
SpecDiff == InitDiff /\ [][ComputeMapDiffDone]_vars

(***************************************************************************)
(* Actions of the snapshot service: its callers, the completion of each of *)
(* its awaits, the frames' answers, the timer, and the debugger events.    *)
(***************************************************************************)
ServiceIs(p) == env = "frames" /\ svc.pc = p

\* handleExecuteCommand: await getPageContext(tab, executionMode)
GetPageContextCall ==
    /\ ServiceIs("idle")
    /\ \E mode \in {"normal", "quiz"} :
          Set([St EXCEPT !.svc = [Svc0 EXCEPT !.pc = "gpc.injectAll", !.mode = mode]])

\* executeScript({allFrames: true}) settled (a rejection is swallowed)
InjectAllDone ==
    /\ env = "frames" /\ svc.pc \in {"gpc.injectAll", "gpc.retryInject"}
    /\ LET s == [St EXCEPT !.frames = [f \in FrameIds |-> inject(frames[f])]]
       IN  Set(IF svc.pc = "gpc.injectAll"
               THEN send(s, 0, "GET_PAGE_CONTEXT", "gpc.dom")
               ELSE [s EXCEPT !.svc.pc = "collect.frames"])

\* webNavigation.getAllFrames settled: the frames of the tab, or a rejection
GetAllFramesDone ==
    /\ ServiceIs("collect.frames")
    /\ \E ok \in BOOLEAN :
          LET all == IF ok /\ chromeDebugger.tabOpen
                     THEN [k \in 1..(MaxChildFrames + 1) |-> k - 1] ELSE <<>>
              contentFrames == SelectSeq(all, LAMBDA f : frames[f].behave # "blank")
          IN  Set(IF all = <<>>
                  THEN send(St, 0, "GET_VISUAL_MAP", "collect.fallback")
                  ELSE collectNext([St EXCEPT !.svc.list = contentFrames,
                                              !.svc.k = 1, !.svc.maps = <<>>]))

\* executeScript({frameIds: [frame.frameId]}) settled
FrameInjectDone ==
    /\ ServiceIs("collect.inject")
    /\ LET f == svc.list[svc.k]
       IN  Set(send([St EXCEPT !.frames[f] = inject(@)], f, "GET_VISUAL_MAP",
                    "collect.map"))

\* a frame whose content script listens answers a message
FrameReply ==
    /\ env = "frames"
    /\ \E m \in inflight :
          /\ frames[m.frame].behave = "ok" /\ frames[m.frame].listeners > 0
          /\ LET s == [St EXCEPT
                          !.inflight = @ \ {m},
                          !.frames[m.frame].runs =
                              IF m.type = "EXECUTE_ACTION"
                              THEN frames[m.frame].listeners ELSE @]
             IN  Set(IF m.abandoned THEN s ELSE settle(s, m, "reply"))

\* tabs.sendMessage rejects: no content script listens in the frame
FrameReject ==
    /\ env = "frames"
    /\ \E m \in inflight :
          /\ frames[m.frame].listeners = 0
          /\ LET s == [St EXCEPT !.inflight = @ \ {m}]
             IN  Set(IF m.abandoned THEN s ELSE settle(s, m, "error"))

\* the timer of sendMessageWithTimeout fires first
FrameTimeout ==
    /\ env = "frames" /\ svc.pc \in TimedAwaits
    /\ \E m \in inflight :
          /\ ~m.abandoned
          /\ Set(settle([St EXCEPT !.inflight = (@ \ {m}) \cup
                                               {[m EXCEPT !.abandoned = TRUE]}],
                        m, "null"))

\* the 1500 ms sleep of the quiz retry is over
RetrySleepDone ==
    /\ ServiceIs("gpc.retrySleep")
    /\ Set([St EXCEPT !.svc.pc = "gpc.retryInject"])

\* chrome.debugger.attach settled
AttachDone ==
    /\ ServiceIs("shot.attach")
    /\ \E refused \in BOOLEAN :
          \* attached, or rejected with 'Already attached': the tab is added;
          \* any other rejection is thrown to getPageContext, which drops it
          Set(IF ~chromeDebugger.tabOpen \/ (refused /\ ~chromeDebugger.attached)
              THEN returnContext(St)
              ELSE [St EXCEPT !.chromeDebugger.attached = TRUE,
                              !.debuggerAttachedTabs = @ \cup {TabId},
                              !.svc.pc = "shot.command"])

\* debugger.sendCommand(Page.captureScreenshot) settled
ScreenshotDone ==
    /\ ServiceIs("shot.command")
    /\ Set(returnContext([St EXCEPT !.svc.context.screenshot =
                                        chromeDebugger.attached]))

\* chrome.debugger.onDetach: the user or the browser ended the debug session
DebuggerDetached ==
    /\ env = "frames" /\ chromeDebugger.attached
    /\ Set([St EXCEPT !.chromeDebugger.attached = FALSE,
                      !.chromeDebugger.detachSeen = @ \/ TabId \in debuggerAttachedTabs,
                      !.debuggerAttachedTabs = @ \ {TabId}])

\* chrome.tabs.onRemoved: the tab was closed
TabRemoved ==
    /\ env = "frames" /\ chromeDebugger.tabOpen
    /\ Set([St EXCEPT !.chromeDebugger.tabOpen = FALSE,
                      !.chromeDebugger.attached = FALSE,
                      !.debuggerAttachedTabs = @ \ {TabId},
                      !.frames = [f \in FrameIds |-> Probe("restricted", FALSE)]])

\* executeAction: a DOM action sent to the frame the action names
ExecuteActionCall ==
    /\ ServiceIs("idle")
    /\ \E f \in FrameIds :
          Set(send([St EXCEPT !.svc = Svc0, !.frames[f].runs = 0],
                   f, "EXECUTE_ACTION", "act.send"))

NextFrames ==
    \/ GetPageContextCall
    \/ InjectAllDone
    \/ GetAllFramesDone
    \/ FrameInjectDone
    \/ FrameReply
    \/ FrameReject
    \/ FrameTimeout
    \/ RetrySleepDone
    \/ AttachDone
    \/ ScreenshotDone
    \/ DebuggerDetached
    \/ TabRemoved
    \/ ExecuteActionCall

ProbeStates ==
    {Probe("ok", FALSE), Probe("ok", TRUE), Probe("wedged", TRUE),
     Probe("restricted", FALSE), Probe("blank", FALSE)}

InitFrames ==
    /\ env = "frames"
    /\ storage = Saved("groq", "key", "llama-3", "compound")
    /\ isExecuting = FALSE /\ shouldStop = FALSE
    /\ aiClient = NoClient /\ conversationHistory = <<>>
    /\ req = [r \in Requests |-> "unsent"]
    /\ cur = Locals0.cur /\ pc = Locals0.pc /\ step = Locals0.step
    /\ executionMode = Locals0.executionMode
    /\ lastFullVisualMap = Locals0.lastFullVisualMap
    /\ lastSearchResults = Locals0.lastSearchResults
    /\ lastSearchedQuestion = Locals0.lastSearchedQuestion
    /\ lastSummary = Locals0.lastSummary /\ pageContext = Locals0.pageContext
    /\ questionKey = Locals0.questionKey /\ message = Locals0.message
    /\ attempt = Locals0.attempt /\ response = Locals0.response
    /\ gotActions = Locals0.gotActions /\ i = Locals0.i
    /\ hitSnapshot = Locals0.hitSnapshot /\ exit = Locals0.exit
    /\ stopAt = Locals0.stopAt
    /\ executed = Locals0.executed /\ captured = Locals0.captured
    /\ histAtCall = Locals0.histAtCall /\ skipped = Locals0.skipped
    /\ calls = Locals0.calls
    /\ debuggerAttachedTabs = {}
    /\ chromeDebugger \in {[attached |-> a, tabOpen |-> TRUE, detachSeen |-> FALSE] :
                              a \in BOOLEAN}
    /\ frames \in [FrameIds -> ProbeStates]
    /\ inflight = {}
    /\ svc = Svc0
    /\ ui = Ui0
    /\ responseText = <<>>
    /\ dom = <<>> /\ emitted = <<>>

SpecFrames == InitFrames /\ [][NextFrames]_vars

(***************************************************************************)
(* Reply texts: one JSON object between a prefix and a suffix.             *)
(***************************************************************************)
ReplyObjects ==
    {<<"{", "K", "[", "]", "}">>,
     <<"{", "K", "[", "{", "k", "v", "}", "]", ",", "k", "v", "}">>,
     <<"{", "k", "v", ",", "K", "[", "{", "k", "[", "v", "]", "}", "]", "}">>,
     <<"{", "K", "[", "]", ",", "k", "{", "k", "v", "}", "}">>,
     <<"{", "k", "v", "}">>}

ReplyPrefixes ==
    {<<>>, <<"p">>, <<"F">>, <<"p", "F">>, <<"p", "{", "p", "}", "p">>, <<"{", "k">>}

ReplySuffixes ==
    {<<>>, <<"p">>, <<"F">>, <<"F", "p">>, <<"p", "{", "p", "}">>, <<"}">>}

\* sendMessage hands the text of the reply to _parseResponse
ParseResponseDone ==
    /\ env = "parse" /\ pc = "idle"
    /\ Set([St EXCEPT !.response = parseResponse(responseText), !.pc = "parsed"])

InitParse ==
    /\ env = "parse"
    /\ storage = Saved("groq", "key", "llama-3", "compound")
    /\ isExecuting = FALSE /\ shouldStop = FALSE
    /\ aiClient = NoClient /\ conversationHistory = <<>>
    /\ req = [r \in Requests |-> "unsent"]
    /\ cur = Locals0.cur /\ pc = Locals0.pc /\ step = Locals0.step
    /\ executionMode = Locals0.executionMode
    /\ lastFullVisualMap = Locals0.lastFullVisualMap
    /\ lastSearchResults = Locals0.lastSearchResults
    /\ lastSearchedQuestion = Locals0.lastSearchedQuestion
    /\ lastSummary = Locals0.lastSummary /\ pageContext = Locals0.pageContext
    /\ questionKey = Locals0.questionKey /\ message = Locals0.message
    /\ attempt = Locals0.attempt /\ response = Locals0.response
    /\ gotActions = Locals0.gotActions /\ i = Locals0.i
    /\ hitSnapshot = Locals0.hitSnapshot /\ exit = Locals0.exit
    /\ stopAt = Locals0.stopAt
    /\ executed = Locals0.executed /\ captured = Locals0.captured
    /\ histAtCall = Locals0.histAtCall /\ skipped = Locals0.skipped
    /\ calls = Locals0.calls
    /\ debuggerAttachedTabs = {}
    /\ chromeDebugger = [attached |-> FALSE, tabOpen |-> TRUE, detachSeen |-> FALSE]
    /\ frames = [f \in FrameIds |-> Probe("ok", TRUE)]
    /\ inflight = {} /\ svc = Svc0 /\ ui = Ui0
    /\ dom = <<>> /\ emitted = <<>>
    /\ responseText \in {pre \o obj \o suf : pre \in ReplyPrefixes,
                           obj \in ReplyObjects, suf \in ReplySuffixes}
\* the decision the loop reads from what _parseResponse returned: the fallback
\* has empty actions and done false; the tokens carry no action types, so the
\* elements of a parsed actions array count as clicks
decisionOf(parsed) ==
    IF parsed = Fallback THEN NeutralDecision
    ELSE LET depth(j) == Cardinality(Positions(SubSeq(parsed, 1, j - 1), {"{", "["}))
                           - Cardinality(Positions(SubSeq(parsed, 1, j - 1), {"}", "]"}))
             keys == {j \in Positions(parsed, {"K"}) : depth(j) = 1}
             open == IF keys = {} THEN 0 ELSE Highest(keys) + 1
             shut == IF open = 0 THEN 0
                     ELSE Lowest({j \in (open + 1)..Len(parsed) : depth(j) = 2
                                                        /\ parsed[j] = "]"})
             elements == {j \in (open + 1)..(shut - 1) :
                             depth(j) = 2 /\ parsed[j - 1] \in {"[", ","}}
         IN  Decision([k \in 1..Cardinality(elements) |-> Action("click")],
                      FALSE, "none", "summary")

\* the retry loop's test of the decision sendMessage returned
RetryCheckDone ==
    /\ env = "parse" /\ pc = "parsed"
    /\ Set([St EXCEPT !.gotActions = GotActions(decisionOf(response)),
                      !.attempt = IF GotActions(decisionOf(response)) THEN @ ELSE @ + 1,
                      !.pc = "checked"])

SpecParse == InitParse /\ [][ParseResponseDone \/ RetryCheckDone]_vars

\* documents of two elements under the body, with every mix of attributes
FlatElements ==
    {Node(tag, id, classes, aria, testid, name, 0) :
        tag \in {"div", "p"}, id \in {"", "a"},
        classes \in {<<>>, <<"c">>, <<"c", "d">>},
        aria \in {"", "l"}, testid \in {"", "t"}, name \in {"", "n"}}

\* two sibling divs, each holding a chain of depth spans around a button
DeepDocument(depth) ==
    LET branch(base) ==
            [k \in 1..(depth + 2) |->
                Node(IF k = 1 THEN "div" ELSE IF k = depth + 2 THEN "button" ELSE "span",
                     "", <<>>, "", "", "", IF k = 1 THEN 0 ELSE base + k - 1)]
    IN  branch(0) \o branch(depth + 2)

Documents ==
    {<<a, b>> : a \in FlatElements, b \in FlatElements}
        \cup {DeepDocument(depth) : depth \in 0..MaxDepth}

\* getVisualPageMap gives every element it emits its selector
GetVisualPageMapDone ==
    /\ env = "dom" /\ pc = "idle"
    /\ Set([St EXCEPT !.emitted = [k \in 1..Len(dom) |-> getSelector(dom, k)],
                      !.pc = "mapped"])

InitDom ==
    /\ env = "dom"
    /\ storage = Saved("groq", "key", "llama-3", "compound")
    /\ isExecuting = FALSE /\ shouldStop = FALSE
    /\ aiClient = NoClient /\ conversationHistory = <<>>
    /\ req = [r \in Requests |-> "unsent"]
    /\ cur = Locals0.cur /\ pc = Locals0.pc /\ step = Locals0.step
    /\ executionMode = Locals0.executionMode
    /\ lastFullVisualMap = Locals0.lastFullVisualMap
    /\ lastSearchResults = Locals0.lastSearchResults
    /\ lastSearchedQuestion = Locals0.lastSearchedQuestion
    /\ lastSummary = Locals0.lastSummary /\ pageContext = Locals0.pageContext
    /\ questionKey = Locals0.questionKey /\ message = Locals0.message
    /\ attempt = Locals0.attempt /\ response = Locals0.response
    /\ gotActions = Locals0.gotActions /\ i = Locals0.i
    /\ hitSnapshot = Locals0.hitSnapshot /\ exit = Locals0.exit
    /\ stopAt = Locals0.stopAt
    /\ executed = Locals0.executed /\ captured = Locals0.captured
    /\ histAtCall = Locals0.histAtCall /\ skipped = Locals0.skipped
    /\ calls = Locals0.calls
    /\ debuggerAttachedTabs = {}
    /\ chromeDebugger = [attached |-> FALSE, tabOpen |-> TRUE, detachSeen |-> FALSE]
    /\ frames = [f \in FrameIds |-> Probe("ok", TRUE)]
    /\ inflight = {} /\ svc = Svc0 /\ ui = Ui0 /\ responseText = <<>>
    /\ dom \in Documents /\ emitted = <<>>
SpecDom == InitDom /\ [][GetVisualPageMapDone]_vars

(***************************************************************************)
(* The action executors of the content script and executeAction's dispatch *)
(* of a DOM action.  A frame is the set of the action's selectors that     *)
(* match a node in its document ("from": selector or fromSelector, "to":   *)
(* toSelector), whether a content script listens in it, the events the     *)
(* executors dispatched there, in order, and the value of the element.     *)
(***************************************************************************)
NoFrame == -1

Doc(nodes, script) == [nodes |-> nodes, script |-> script, events |-> <<>>,
                       value |-> "old"]

Result(success, error) == [success |-> success, error |-> error]

Ran(fr, r) == [frame |-> fr, result |-> r]

\* r.error.toLowerCase().includes('not found')
includesNotFound(error) ==
    error \in {"Element not found", "Source element not found",
               "Target element not found"}

\* dragElement: both nodes are looked up before anything is dispatched; the
\* HTML5 events are dispatched unless DataTransfer or DragEvent throws
dragElement(fr, html5) ==
    IF "from" \notin fr.nodes THEN Ran(fr, Result(FALSE, "Source element not found"))
    ELSE IF "to" \notin fr.nodes THEN Ran(fr, Result(FALSE, "Target element not found"))
    ELSE Ran([fr EXCEPT !.events =
                 @ \o <<"pointerdown.from", "mousedown.from", "pointermove",
                        "mouseover.to", "pointerup.to", "mouseup.to">>
                   \o (IF html5 THEN <<"dragstart.from", "drop.to", "dragend.from">>
                       ELSE <<>>)],
             Result(TRUE, ""))

\* faulty variant: the executors act before they look the node up
handleActionUnchecked(action, fr, html5) ==
    Ran([fr EXCEPT !.events = Append(@, "input"), !.value = ""],
        Result(FALSE, "Element not found"))

\* handleAction: the executor of the action's type run in a frame
handleAction(action, fr, html5) ==
    LET missing(error) == Ran(fr, Result(FALSE, error))
        found == "from" \in fr.nodes
        done(events, value) ==
            Ran([fr EXCEPT !.events = @ \o events, !.value = value],
                Result(TRUE, ""))
    IN  CASE action.type = "click" ->
                IF ~found THEN missing("Element not found")
                ELSE done(<<"mouseover", "mousedown", "mouseup", "click">>, fr.value)
          [] action.type = "type" ->
                IF ~found THEN missing("Element not found")
                ELSE done(<<"input", "keydown", "input", "keyup", "change">>, "typed")
          [] action.type = "hover" ->
                IF ~found THEN missing("Element not found")
                ELSE done(<<"mouseenter", "mouseover", "mousemove">>, fr.value)
          [] action.type = "select" ->
                IF ~found THEN missing("Element not found")
                ELSE done(<<"change", "input">>, "selected")
          [] action.type = "scroll" ->
                IF ~found THEN missing("Element not found")
                ELSE done(<<"scrollBy">>, fr.value)
          [] action.type = "extract" ->
                IF ~found THEN missing("No elements found")
                ELSE done(<<>>, fr.value)
          [] action.type = "drag" -> dragElement(fr, html5)

Act0 == [pc |-> "idle", action |-> [type |-> "", frameId |-> NoFrame],
         target |-> NoFrame, list |-> <<>>, k |-> 0, last |-> Result(FALSE, ""),
         dragResult |-> Result(FALSE, ""), result |-> "", sent |-> <<>>]

\* the frame a message goes to: the one of sendOpts, the top frame without one
sendTo(s, f, at) ==
    [s EXCEPT !.svc.target = f, !.svc.pc = at, !.svc.sent = Append(@, f)]

\* the sweep over the frames getAllFrames returned: the top frame is skipped
RECURSIVE sweepNext(_)
sweepNext(s) ==
    IF s.svc.k > Len(s.svc.list)
    THEN [s EXCEPT !.svc.pc = "act.done", !.svc.result = "result"]
    ELSE IF s.svc.list[s.svc.k] = 0
    THEN sweepNext([s EXCEPT !.svc.k = @ + 1])
    ELSE sendTo(s, s.svc.list[s.svc.k], "act.sweep")

\* executeAction is called with a DOM action
ExecuteDomAction ==
    /\ env = "probe" /\ svc.pc = "idle"
    /\ Set(sendTo(St, IF svc.action.frameId # NoFrame THEN svc.action.frameId ELSE 0,
                  "act.first"))

\* the first EXECUTE_ACTION message settled: a result, or a rejection, which
\* the drag case turns into a result and the other cases throw
FirstAttemptDone ==
    /\ env = "probe" /\ svc.pc = "act.first"
    /\ \E html5 \in BOOLEAN :
          LET f == svc.target
              ran == IF frames[f].script
                     THEN handleAction(svc.action, frames[f], html5)
                     ELSE Ran(frames[f], Result(FALSE, "Could not establish connection"))
              s == [St EXCEPT !.frames[f] = ran.frame, !.svc.last = ran.result,
                              !.svc.dragResult = ran.result]
          IN  Set(IF svc.action.type # "drag"
                  THEN [s EXCEPT !.svc.pc = "act.done",
                                 !.svc.result = IF frames[f].script THEN "result"
                                                ELSE "throw"]
                  ELSE IF ~ran.result.success /\ svc.action.frameId \in {NoFrame, 0}
                  THEN [s EXCEPT !.svc.pc = "act.frames"]
                  ELSE [s EXCEPT !.svc.pc = "act.done", !.svc.result = "result"])

\* webNavigation.getAllFrames of the drag sweep settled; a rejection gives []
DragFramesDone ==
    /\ env = "probe" /\ svc.pc = "act.frames"
    /\ \E ok \in BOOLEAN :
          Set(sweepNext([St EXCEPT
                 !.svc.list = IF ok THEN [k \in 1..(MaxChildFrames + 1) |-> k - 1]
                              ELSE <<>>,
                 !.svc.k = 1]))

\* the message of the sweep to a child frame settled
SweepAttemptDone ==
    /\ env = "probe" /\ svc.pc = "act.sweep"
    /\ \E html5 \in BOOLEAN :
          LET f == svc.target
              ran == handleAction(svc.action, frames[f], html5)
              s == [St EXCEPT !.frames[f] = ran.frame, !.svc.last = ran.result]
          IN  Set(IF ~frames[f].script
                  THEN sweepNext([St EXCEPT !.svc.k = @ + 1,
                                            !.svc.last = Result(FALSE, "")])
                  ELSE IF ran.result.success \/ ~includesNotFound(ran.result.error)
                  THEN [s EXCEPT !.svc.dragResult = ran.result,
                                 !.svc.pc = "act.done", !.svc.result = "result"]
                  ELSE sweepNext([s EXCEPT !.svc.k = @ + 1]))

ProbeActions ==
    [type : {"click", "type", "hover", "select", "scroll", "extract", "drag"},
     frameId : {NoFrame} \cup FrameIds]

InitProbe ==
    /\ env = "probe"
    /\ storage = Saved("groq", "key", "llama-3", "compound")
    /\ isExecuting = FALSE /\ shouldStop = FALSE
    /\ aiClient = NoClient /\ conversationHistory = <<>>
    /\ req = [r \in Requests |-> "unsent"]
    /\ cur = Locals0.cur /\ pc = Locals0.pc /\ step = Locals0.step
    /\ executionMode \in {"normal", "quiz"}
    /\ lastFullVisualMap = Locals0.lastFullVisualMap
    /\ lastSearchResults = Locals0.lastSearchResults
    /\ lastSearchedQuestion = Locals0.lastSearchedQuestion
    /\ lastSummary = Locals0.lastSummary /\ pageContext = Locals0.pageContext
    /\ questionKey = Locals0.questionKey /\ message = Locals0.message
    /\ attempt = Locals0.attempt /\ response = Locals0.response
    /\ gotActions = Locals0.gotActions /\ i = Locals0.i
    /\ hitSnapshot = Locals0.hitSnapshot /\ exit = Locals0.exit
    /\ stopAt = Locals0.stopAt
    /\ executed = Locals0.executed /\ captured = Locals0.captured
    /\ histAtCall = Locals0.histAtCall /\ skipped = Locals0.skipped
    /\ calls = Locals0.calls
    /\ debuggerAttachedTabs = {}
    /\ chromeDebugger = [attached |-> FALSE, tabOpen |-> TRUE, detachSeen |-> FALSE]
    /\ frames \in [FrameIds -> {Doc(nodes, script) :
                                   nodes \in SUBSET {"from", "to"},
                                   script \in BOOLEAN}]
    /\ inflight = {} /\ ui = Ui0 /\ responseText = <<>>
    /\ \E a \in ProbeActions : svc = [Act0 EXCEPT !.action = a]
    /\ dom = <<>> /\ emitted = <<>>

SpecProbe ==
    InitProbe /\ [][ExecuteDomAction \/ FirstAttemptDone \/ DragFramesDone
                      \/ SweepAttemptDone]_vars

(***************************************************************************)
(* The global aiClient as an object.  Every AIClient constructed gets the  *)
(* next instance number; hist[n] is the conversationHistory of instance n  *)
(* and saved[n] tells whether it was built with the stored settings.  The  *)
(* command remembers the instance ensureClient left in the global (bound), *)
(* the instance its pending sendMessage runs on (this) and, in uses, every *)
(* method call and splice it made with the instance it was made on.        *)
(***************************************************************************)
NoInstance == 0

Use(op, on) == [op |-> op, on |-> on]

Cli0 == [pc |-> "idle", global |-> NoInstance, bound |-> NoInstance,
         this |-> NoInstance, hist |-> <<>>, saved |-> <<>>, sent |-> 0,
         attempt |-> 0, commands |-> 0, uses |-> {}]

\* new AIClient(...): a fresh instance with an empty history
construct(c, stored) ==
    [c EXCEPT !.hist = Append(@, <<>>), !.saved = Append(@, stored),
              !.global = Len(c.hist) + 1]

\* handleValidateKey after a successful validateKey: aiClient = client
install(c) == construct(c, FALSE)

\* onMessage EXECUTE_COMMAND, accepted
ClientCommand ==
    /\ env = "client" /\ svc.pc = "idle" /\ ~IsBusy(isExecuting)
    /\ svc.commands < MaxRequests
    /\ Set([entryFlags(St) EXCEPT !.svc.pc = "ensure", !.svc.commands = @ + 1,
                                  !.svc.uses = {}, !.svc.sent = 0,
                                  !.svc.attempt = 0])

\* ensureClient returned: the client is rebuilt when there is none or its
\* settings are not the stored ones
ClientEnsured ==
    /\ env = "client" /\ svc.pc = "ensure"
    /\ LET c == IF svc.global = NoInstance \/ ~svc.saved[svc.global]
                THEN construct(svc, TRUE) ELSE svc
       IN  Set([St EXCEPT !.svc = [c EXCEPT !.bound = c.global, !.pc = "step"]])

\* the automatic search: aiClient.executeSearch(...) called and settled
ClientSearchDone ==
    /\ env = "client" /\ svc.pc = "step" /\ svc.attempt = 0
    /\ Use("executeSearch", svc.global) \notin svc.uses
    /\ Set([St EXCEPT !.svc.uses = @ \cup {Use("executeSearch", svc.global)}])

\* aiClient.sendMessage(...) is called: the method runs on the instance the
\* global holds now
ClientSendCall ==
    /\ env = "client" /\ svc.pc = "step" /\ svc.sent <= MaxFreeCalls
    /\ Set([St EXCEPT !.svc.pc = "send", !.svc.this = svc.global,
                      !.svc.sent = @ + 1,
                      !.svc.uses = @ \cup {Use("sendMessage", svc.global)}])

\* sendMessage returned: the pair is pushed to the history of its instance;
\* a reply without actions is spliced from the history of the global client
ClientSendDone ==
    /\ env = "client" /\ svc.pc = "send"
    /\ \E accepted \in BOOLEAN :
          LET pushed == [svc EXCEPT !.hist[svc.this] =
                            _trimHistory(PushPair(@, Msg("command", ""), "summary")),
                                    !.this = NoInstance]
              spliced == [pushed EXCEPT
                             !.hist[pushed.global] = SpliceRejected(@),
                             !.uses = @ \cup {Use("splice", pushed.global)}]
          IN  Set([St EXCEPT !.svc =
                     IF accepted THEN [pushed EXCEPT !.pc = "step", !.attempt = 0]
                     ELSE IF svc.attempt < MAX_RETRIES - 1
                     THEN [spliced EXCEPT !.pc = "step", !.attempt = @ + 1]
                     ELSE [spliced EXCEPT !.pc = "return"]])

\* the loop ends: return through finally
ClientReturn ==
    /\ env = "client" /\ svc.pc \in {"step", "return"}
    /\ svc.pc = "step" => svc.attempt = 0 /\ svc.sent > 0
    /\ Set([St EXCEPT !.svc.pc = "idle", !.isExecuting = FALSE,
                      !.shouldStop = FALSE])

\* onMessage VALIDATE_API_KEY: handleValidateKey after client.validateKey()
ValidateKeyDone ==
    /\ env = "client" /\ Len(svc.hist) <= MaxRequests
    /\ \E success \in BOOLEAN :
          Set([St EXCEPT !.svc = IF success THEN install(svc) ELSE svc])

InitClient ==
    /\ env = "client"
    /\ storage = Saved("groq", "key", "llama-3", "compound")
    /\ isExecuting = FALSE /\ shouldStop = FALSE
    /\ aiClient = NoClient /\ conversationHistory = <<>>
    /\ req = [r \in Requests |-> "unsent"]
    /\ cur = Locals0.cur /\ pc = Locals0.pc /\ step = Locals0.step
    /\ executionMode = Locals0.executionMode
    /\ lastFullVisualMap = Locals0.lastFullVisualMap
    /\ lastSearchResults = Locals0.lastSearchResults
    /\ lastSearchedQuestion = Locals0.lastSearchedQuestion
    /\ lastSummary = Locals0.lastSummary /\ pageContext = Locals0.pageContext
    /\ questionKey = Locals0.questionKey /\ message = Locals0.message
    /\ attempt = Locals0.attempt /\ response = Locals0.response
    /\ gotActions = Locals0.gotActions /\ i = Locals0.i
    /\ hitSnapshot = Locals0.hitSnapshot /\ exit = Locals0.exit
    /\ stopAt = Locals0.stopAt
    /\ executed = Locals0.executed /\ captured = Locals0.captured
    /\ histAtCall = Locals0.histAtCall /\ skipped = Locals0.skipped
    /\ calls = Locals0.calls
    /\ debuggerAttachedTabs = {}
    /\ chromeDebugger = [attached |-> FALSE, tabOpen |-> TRUE, detachSeen |-> FALSE]
    /\ frames = [f \in FrameIds |-> Probe("ok", TRUE)]
    /\ inflight = {} /\ ui = Ui0 /\ responseText = <<>>
    /\ svc = Cli0
    /\ dom = <<>> /\ emitted = <<>>

SpecClient ==
    InitClient /\ [][ClientCommand \/ ClientEnsured \/ ClientSearchDone
                       \/ ClientSendCall \/ ClientSendDone \/ ClientReturn
                       \/ ValidateKeyDone]_vars

(***************************************************************************)
(* Properties.                                                             *)
(***************************************************************************)
RunningRequests == {r \in Requests : req[r] = "running"}

\* an await of the running command completed
LoopStep == Running /\ <<pc, i, attempt>>' # <<pc, i, attempt>>

\* the loop passes the top of the step loop into a step
NewStep ==
    \/ pc' = "inject" /\ pc # "inject"
    \/ pc' = "getPageContext" /\ pc \notin {"inject", "getPageContext"}

\* the retry loop calls sendMessage
NewPlannerCall ==
    /\ pc' \in {"visionAnalysis", "fetch"}
    /\ pc \notin {"visionAnalysis", "fetch", "retryFetch"} \/ attempt' # attempt

\* the action loop starts an action
NewAction == pc' = "executeAction" /\ (pc # "executeAction" \/ i' # i)

\* C1: at most one command is inside the loop at any time, the busy flag is
\* set exactly while one is, a command that arrives while another executes is
\* answered busy in the same step, and a busy command never enters the loop
C1_SingleFlight ==
    /\ [](/\ Cardinality(RunningRequests) <= 1
          /\ isExecuting <=> RunningRequests # {}
          /\ isExecuting <=> Running)
    /\ [][\A r \in Requests :
            /\ req[r] = "busy" => req'[r] = "busy"
            /\ (req[r] = "unsent" /\ isExecuting) => req'[r] \in {"unsent", "busy"}
            /\ (req[r] = "unsent" /\ req'[r] = "busy") => isExecuting]_vars

\* C1 case: one command is in the loop and another was answered busy
C1_Witness ==
    \E r, q \in Requests : req[r] = "running" /\ req[q] = "busy" /\ pc = "fetch"

\* C2: once STOP has set the flag of a running command, no step, no planner
\* call and no action is started, and the completion of a planner request
\* leads only to the exit or to the retry inside the same call, with the mode
\* as it was
C2_NoNewWorkAfterStop ==
    [][(shouldStop /\ isExecuting) =>
          /\ ~NewStep /\ ~NewPlannerCall /\ ~NewAction
          /\ (pc \in {"fetch", "retryFetch"} /\ LoopStep) =>
                /\ pc' \in {"idle", "retryFetch"}
                /\ pc' # "idle" => executionMode' = executionMode]_vars

\* C2 case: a decision arrived after STOP and the loop left without acting
C2_Witness == pc = "idle" /\ exit = "stopReply" /\ req[1] = "result"

\* where the loop can be after an await completes with the stop flag set
AfterStop(p) ==
    CASE p = "ensureClient" -> {"tabsQuery", "idle"}
      [] p = "tabsQuery" -> {"idle"}
      [] p = "inject" -> {"getPageContext"}
      [] p = "getPageContext" -> {"captureScreenshot", "executeSearch", "idle"}
      [] p = "captureScreenshot" -> {"executeSearch", "idle"}
      [] p = "executeSearch" -> {"idle"}
      [] p = "visionAnalysis" -> {"fetch"}
      [] p = "fetch" -> {"retryFetch", "idle"}
      [] p = "retryFetch" -> {"idle"}
      [] p = "executeAction" -> {"dragSettle", "pause", "idle"}
      [] p = "dragSettle" -> {"pause", "idle"}
      [] p = "pause" -> {"idle"}
      [] OTHER -> {}

C4_ArmedOnlyWhileExecuting == shouldStop => isExecuting

\* C4 amended: the stop flag is false whenever a command enters or leaves the
\* loop, and it is set while no command executes only by a STOP that arrived
\* while idle
C4_ClearedOnEntryAndExit ==
    /\ []((shouldStop /\ ~isExecuting) => stopAt = "idle")
    /\ [][(isExecuting' # isExecuting) => ~shouldStop']_vars

\* C4 case: a command entered the loop after a STOP that arrived while idle,
\* and its flag is clear
C4_Witness == pc = "ensureClient" /\ stopAt = "idle" /\ ~shouldStop /\ isExecuting

\* an action after which the loop reads no further action of the batch
Breaks(action, mode) ==
    \/ action.type \in {"snapshot", "screenshot", "search"}
    \/ mode = "quiz" /\ action.type = "drag"

\* C5: the actions started in a step are the first ones of the decision, in
\* order; no action is started after a snapshot, screenshot or search, or after
\* a drag in quiz mode; and a step starts with no action carried over
C5_ExecutedPrefix ==
    /\ pc \in {"executeAction", "dragSettle"} =>
          /\ i \in 1..Len(response.actions)
          /\ executed = [k \in 1..i |-> k]
          /\ \A k \in 1..(i - 1) : ~Breaks(response.actions[k], executionMode)
    /\ pc \in {"inject", "getPageContext", "captureScreenshot", "executeSearch"} =>
          executed = <<>> /\ response = NoResponse

\* C5 case: a batch ended at a break-point with actions left over
C5_Witness == pc = "pause" /\ hitSnapshot /\ skipped > 0 /\ executed # <<>>

\* the batch of the step is over
BatchEnds == pc \in {"executeAction", "dragSettle"} /\ pc' \in {"pause", "idle"}

\* C6 as stated: after a batch whose decision has done=true the loop goes on
\* exactly when the mode is quiz and the last action executed is a snapshot
C6_DoneEndsLoop ==
    [][(BatchEnds /\ response.done) =>
          (pc' = "pause" <=>
              executionMode = "quiz" /\ response.actions[i].type = "snapshot")]_vars

SendFails == pc \in {"fetch", "retryFetch"} /\ exit' \in {"sendFailed", "retryFailed"}

\* C8 as stated: a failing call leaves the history as it was when called
C8_FailureLeavesHistory == [][SendFails => conversationHistory' = histAtCall]_vars

\* C8 amended: a failing call appends nothing; it leaves the history as it was
\* when called, or empty when it fails after the json_validate_failed recovery
C8_FailureAppendsNothing ==
    [][SendFails =>
          conversationHistory' = IF exit' = "retryFailed" THEN <<>>
                                 ELSE histAtCall]_vars

\* C8 case: a call failed after the recovery and the history it was given is gone
C8_Witness ==
    pc = "idle" /\ exit = "retryFailed" /\ histAtCall # <<>>
    /\ conversationHistory = <<>>

\* C9: a running command is in a step below 25, and below 15 as long as its
\* mode is normal; every pass of the loop head, the one after a step without a
\* usable decision included, counts one step
C9_StepBudget ==
    /\ [](/\ Running => step < MaxStepsQuiz
          /\ (executionMode = "normal"
              /\ pc \in {"getPageContext", "captureScreenshot", "executeSearch",
                         "visionAnalysis", "fetch", "retryFetch"})
                => step < MaxStepsNormal)
    /\ [][NewStep => step' = IF pc = "tabsQuery" THEN 0 ELSE step + 1]_vars

\* C9 case: the third attempt of the twenty-fifth step
C9_Witness ==
    pc = "fetch" /\ step = MaxStepsQuiz - 1 /\ attempt = MAX_RETRIES - 1

\* perception is over and the step goes on with the map the planner will get
PerceptionDone ==
    /\ pc \in {"getPageContext", "captureScreenshot"}
    /\ pc' \in {"executeSearch", "visionAnalysis", "fetch"}

\* C10: outside the screenshot retry the remembered map is the full map of the
\* latest capture and never a diff; the planner's map is the diff against the
\* remembered map exactly in quiz mode after step 0 with both maps non-empty
C10_StoredBeforeDiff ==
    /\ []((Running /\ pc # "captureScreenshot") =>
            lastFullVisualMap = captured /\ ~IsDiffOutput(lastFullVisualMap))
    /\ [][PerceptionDone =>
            pageContext'.visualMap =
                IF /\ executionMode = "quiz" /\ step > 0
                   /\ lastFullVisualMap \notin {Undefined, <<>>}
                   /\ captured' \notin {Undefined, <<>>}
                THEN computeMapDiff(lastFullVisualMap, captured')
                ELSE captured']_vars

\* C10 case: a later step sent a diff and remembers the full map
C10_Witness ==
    /\ pc = "fetch" /\ step > 1
    /\ IsDiffOutput(pageContext.visualMap) /\ pageContext.visualMap # PageUnchanged
    /\ lastFullVisualMap = captured

(***************************************************************************)
(* The section-wise overlay of a diff on the map it was computed from: a   *)
(* replayed section contributes its own element lines, an "unchanged"      *)
(* notice stands for the element lines of the same section of the old map  *)
(* (the outer page; the k-th iframe section for the k-th iframe section of *)
(* the update).                                                            *)
(***************************************************************************)
OuterEls(map) ==
    LET found == FindSection(splitSections(map), "VISUAL PAGE MAP")
    IN  IF found = <<>> THEN <<>> ELSE getElementLines(found[1].body)

IframeEls(map, k) ==
    LET secs == SelectSeq(splitSections(map), LAMBDA s : "IFRAME" \in s.header.tok)
    IN  IF k <= Len(secs) THEN getElementLines(secs[k].body) ELSE <<>>

RECURSIVE OverlayFrom(_, _, _)
OverlayFrom(lines, old, k) ==
    IF lines = <<>> THEN <<>>
    ELSE LET l == Head(lines)
         IN  IF l.s = "[Outer page: N elements unchanged]"
             THEN OuterEls(old) \o OverlayFrom(Tail(lines), old, k)
             ELSE IF l.s = "[Iframe: N elements unchanged]"
             THEN IframeEls(old, k + 1) \o OverlayFrom(Tail(lines), old, k + 1)
             ELSE IF IsHeaderLine(l) /\ "IFRAME" \in l.tok
             THEN OverlayFrom(Tail(lines), old, k + 1)
             ELSE IF IsElementLine(l)
             THEN <<l>> \o OverlayFrom(Tail(lines), old, k)
             ELSE OverlayFrom(Tail(lines), old, k)

Overlay(old, diff) ==
    IF diff = PageUnchanged THEN getElementLines(old)
    ELSE IF diff # <<>> /\ Head(diff) = DiffHeader
    THEN OverlayFrom(Tail(Tail(diff)), old, 0)
    ELSE getElementLines(diff)

Diffed == env = "diff" /\ pc = "diffed"

\* C11 (as stated): for any two maps A and B, overlaying computeMapDiff(A, B)
\* section by section on A gives exactly the element lines of B
C11_DiffFaithful ==
    Diffed => Overlay(lastFullVisualMap, pageContext.visualMap)
                  = getElementLines(captured)

\* C12: for a non-empty old map A, computeMapDiff(A, B) is exactly
\* '[Page unchanged]' if and only if A and B have the same sequence of element
\* lines over the whole document; otherwise it is a document that starts with
\* the '=== PAGE UPDATE (diff) ===' header
C12_UnchangedIffSameElements ==
    (Diffed /\ ~Falsy(lastFullVisualMap)) =>
        LET same == SelectSeq(lastFullVisualMap, IsElementLine)
                        = SelectSeq(captured, IsElementLine)
            diff == pageContext.visualMap
        IN  /\ (diff = PageUnchanged) <=> same
            /\ ~same => (diff # <<>> /\ Head(diff) = DiffHeader)

\* two different documents with the same element lines were compared
C12_Witness ==
    /\ Diffed /\ ~Falsy(lastFullVisualMap)
    /\ lastFullVisualMap # captured
    /\ pageContext.visualMap = PageUnchanged

(***************************************************************************)
(* Properties of the snapshot service and the probe.                       *)
(***************************************************************************)
\* the awaits of the pipeline on a frame message: the top-frame DOM request,
\* the visual-map requests and the action dispatch
FrameAwaits == {"gpc.dom", "collect.fallback", "collect.map", "act.send"}

\* a step in which the service leaves the await it is suspended at
ServiceMoves == NextFrames /\ svc'.pc # svc.pc

\* C13 (as stated): whatever the frames do, every wait of the pipeline on a
\* frame message can end by itself (a reply, a rejection or the timer), so a
\* frame that never answers does not block the step
C13_WedgedFrameNeverBlocks ==
    (env = "frames" /\ svc.pc \in FrameAwaits) => ENABLED ServiceMoves

\* the frame requests the service is still waiting for
Awaited == {m \in inflight : ~m.abandoned}

\* C14 (as stated): during a snapshot no two frame requests are in flight at
\* the same time
C14_OneRequestInFlight == env = "frames" => Cardinality(inflight) <= 1

\* C14 (amended): the service waits for at most one frame request at a time,
\* and sends the next one only when it waits for none; requests its timer gave
\* up on may still be in flight
C14_OneRequestAwaited ==
    /\ [](env = "frames" =>
            /\ Cardinality(Awaited) <= 1
            /\ (Awaited # {}) <=> (svc.pc \in FrameAwaits))
    /\ [][(env = "frames" /\ (\E m \in inflight' : ~m.abandoned /\ m \notin inflight))
             => Awaited = {}]_vars

\* the top frame's request timed out and is still in flight while the service
\* waits for the child frame
C14_Witness ==
    /\ env = "frames" /\ svc.pc = "collect.map" /\ svc.k = 2
    /\ [frame |-> 0, type |-> "GET_VISUAL_MAP", abandoned |-> TRUE] \in inflight
    /\ [frame |-> 1, type |-> "GET_VISUAL_MAP", abandoned |-> FALSE] \in inflight

(***************************************************************************)
(* Properties of the action batch and of the way a command ends.           *)
(***************************************************************************)
\* the step in which the await of executeAction ends
ActionReturns == pc = "executeAction" /\ <<pc, i>>' # <<pc, i>>

\* C15: an action that fails (the executor throws or returns success=false)
\* is logged as an error and aborts nothing: the command does not end in its
\* catch block, and unless the batch ends there anyway (last action,
\* break-point, STOP) the next action of the same batch is started
C15_FailedActionContinues ==
    [][(ActionReturns /\ ui'.outcome \in {"fail", "throw"}) =>
          LET action == response.actions[i]
          IN  /\ ui'.actionLog = "error"
              /\ ~(pc' = "idle" /\ (exit' = "error" \/ req'[cur] = "error"))
              /\ (/\ i < Len(response.actions) /\ ~shouldStop
                  /\ ~Breaks(action, executionMode))
                 => /\ pc' = "executeAction" /\ i' = i + 1
                    /\ response' = response /\ step' = step
              /\ (action.type = "drag" /\ executionMode = "quiz")
                 => pc' = "dragSettle"]_vars

\* the first action of a batch threw and the second one is running
C15_Witness ==
    /\ pc = "executeAction" /\ i = 2 /\ ui.outcome = "throw"
    /\ ui.actionLog = "error" /\ executed = <<1, 2>>

\* the ways a command leaves the loop through its catch block
ErrorExits == {"error", "sendFailed", "retryFailed"}

\* C16: every accepted command, however it ends, broadcasts exactly one
\* terminal STATUS_UPDATE (error when it ends in the catch block, ready
\* otherwise) and EXECUTION_STATE running=false, none of them before it
\* ends, and afterwards starts no action and no planner call: the loop stays
\* idle until another command is accepted
C16_OneTerminalStatus ==
    /\ []((pc = "idle" /\ exit # "") =>
            /\ ui.status = <<IF exit \in ErrorExits THEN "error" ELSE "ready">>
            /\ ui.running = "false")
    /\ [](pc # "idle" =>
            /\ ui.status = <<>>
            /\ ui.running \in {"", "true"})
    /\ [][pc = "idle" =>
             /\ ~NewAction /\ ~NewPlannerCall
             /\ pc' \in {"idle", "ensureClient"}
             /\ pc' = "ensureClient" => (ui' = Ui0 /\ exit' = "")]_vars

\* a second command ended in the catch block after the first had returned
C16_Witness ==
    /\ pc = "idle" /\ exit = "sendFailed" /\ req = <<"result", "error">>
    /\ ui.status = <<"error">> /\ ui.running = "false"

\* C17 (as stated): a command that ends because shouldStop was observed (at
\* the top of a step, in the retry loop or between actions) reports that it
\* was stopped: 'Stopped by user' is logged or a stopped result is returned
C17_StopIsReported ==
    (pc = "idle" /\ exit \in {"stopStep", "stopNoCall", "stopReply"}) =>
        (ui.stoppedLog \/ \E r \in Requests : req[r] = "stopped")

\* captureScreenshot is entered
ScreenshotBegins ==
    /\ svc'.pc \in {"shot.attach", "shot.command"}
    /\ svc.pc \notin {"shot.attach", "shot.command"}

\* C18: attachDebugger issues an attach for the tab exactly when the tab is
\* not in debuggerAttachedTabs; an attach answered 'Already attached' counts
\* as success (the tab is added and the screenshot command is sent); the tab
\* is in the set only while the debug session is open, because a detach
\* event or the closing of the tab removes it, so that the next screenshot
\* attaches again
C18_AttachIdempotent ==
    /\ [](TabId \in debuggerAttachedTabs =>
             (chromeDebugger.attached /\ chromeDebugger.tabOpen))
    /\ [][/\ ScreenshotBegins =>
                (svc'.pc = "shot.attach" <=> TabId \notin debuggerAttachedTabs)
          /\ (svc.pc = "shot.attach" /\ svc'.pc # "shot.attach"
                 /\ chromeDebugger.attached /\ chromeDebugger.tabOpen)
                => (svc'.pc = "shot.command" /\ TabId \in debuggerAttachedTabs')
          /\ (~chromeDebugger'.attached \/ ~chromeDebugger'.tabOpen)
                => TabId \notin debuggerAttachedTabs']_vars

\* a screenshot attaches again after a detach event removed the tab
C18_Witness ==
    /\ svc.pc = "shot.attach" /\ chromeDebugger.detachSeen
    /\ chromeDebugger.tabOpen /\ TabId \notin debuggerAttachedTabs

\* what the content script keeps in the document of a frame
ProbeState(p) == <<p.injected, p.listeners>>

\* an executeScript of content.js is being awaited
Injecting == svc.pc \in {"gpc.injectAll", "gpc.retryInject", "collect.inject"}

\* C19: however often content.js is run in a document, the document holds
\* exactly one message handler once it holds any; an EXECUTE_ACTION message
\* a frame answers was handled exactly once; running the script in a
\* document that already holds it changes nothing the script keeps
C19_ProbeSingleton ==
    /\ [](env = "frames" =>
            \A f \in FrameIds :
               /\ frames[f].listeners = (IF frames[f].injected THEN 1 ELSE 0)
               /\ frames[f].runs <= 1)
    /\ [][/\ \A m \in inflight :
                (m.type = "EXECUTE_ACTION" /\ m \notin inflight')
                   => frames'[m.frame].runs =
                         (IF frames[m.frame].listeners > 0 THEN 1 ELSE 0)
          /\ \A f \in FrameIds :
                (Injecting /\ svc'.pc # svc.pc /\ frames[f].injected)
                   => /\ ProbeState(frames'[f]) = ProbeState(frames[f])
                      /\ frames'[f].runs = frames[f].runs]_vars

\* a frame whose document the script was run in again handled its
\* EXECUTE_ACTION once
C19_Witness ==
    /\ env = "frames" /\ svc.result = "result"
    /\ \E f \in FrameIds : frames[f].again /\ frames[f].runs = 1

(***************************************************************************)
(* Properties of the reply parser.                                         *)
(***************************************************************************)
Parsed == env = "parse" /\ pc \in {"parsed", "checked"}

\* the pieces of the reply text that are a JSON object with an actions array
EmbeddedObjects ==
    {t \in {SubSeq(responseText, a, b) :
               a \in 1..Len(responseText), b \in 1..Len(responseText)} :
        isActionsObject(t)}

\* C20: whenever the reply text contains a valid JSON object with an actions
\* array, whatever prose, fences or braces surround it, _parseResponse
\* returns exactly that object
C20_RecoversEmbeddedObject ==
    Parsed => \A obj \in EmbeddedObjects : response = obj

(***************************************************************************)
(* Properties of the question key.                                         *)
(***************************************************************************)
\* a map without its draggable tile lines and without its element count
Untiled(map) ==
    [k \in 1..Len(SelectSeq(map, LAMBDA l : "[draggable]" \notin l.tok)) |->
        LET l == SelectSeq(map, LAMBDA x : "[draggable]" \notin x.tok)[k]
        IN  IF l.c = "" THEN [l EXCEPT !.n = 0] ELSE l]

Tiles(map) == SelectSeq(map, LAMBDA l : "[draggable]" \in l.tok)

Keyed == env = "keys" /\ pc = "keyed"

Mapped == env = "dom" /\ pc = "mapped"

\* C22: the selector of every element of the map finds that element and no
\* other in the document it was captured from
C22_SelectorUnique ==
    Mapped => \A k \in 1..Len(dom) : querySelectorAll(dom, emitted[k]) = {k}

(***************************************************************************)
(* Properties of the retry loop, the mode and the search buffer.           *)
(***************************************************************************)
PlannerAwaits == {"visionAnalysis", "fetch", "retryFetch"}

\* a decision with at least one action that is not a describe
RealActions(d) ==
    Len(d.actions) > 0 /\ \E k \in 1..Len(d.actions) : d.actions[k].type # "describe"

\* the retry loop asks the planner again in the same step
ReAsk == pc \in PlannerAwaits /\ NewPlannerCall

GiveUp ==
    /\ pc \in {"fetch", "retryFetch"} /\ attempt = MAX_RETRIES - 1 /\ ~shouldStop
    /\ pc' \notin PlannerAwaits \cup {"executeAction"}
    /\ exit' \notin ErrorExits

\* C24: when no attempt of a step yields real actions, no action of the step
\* is executed; at step 0 the command ends there with its result, at a later
\* step the loop goes on to the top of the next step (where only the step
\* budget can end it)
C24_NoActionsBranch ==
    [][GiveUp =>
          /\ executed = <<>> /\ executed' = <<>> /\ ui'.gaveUp
          /\ step = 0 => (pc' = "idle" /\ exit' = "noActions" /\ ~isExecuting'
                             /\ req'[cur] = "result")
          /\ step > 0 => \/ NewStep /\ step' = step + 1
                         \/ /\ ~(step + 1 < maxSteps(executionMode))
                            /\ pc' = "idle" /\ exit' = "budget"]_vars

\* the loop is in the step after one that was given up
C24_Witness ==
    /\ ui.gaveUp /\ step > 0 /\ pc \in {"inject", "getPageContext"}
    /\ executed = <<>>

\* the perception of step 0 ends on a page the quiz detector accepts
AutoDetected ==
    /\ step = 0 /\ pc \in {"getPageContext", "captureScreenshot"} /\ pc' # pc
    /\ detectQuizMode(pageContext')

\* a decision with real actions was returned and its batch starts
Accepted ==
    /\ pc \in {"fetch", "retryFetch"} /\ pc' = "executeAction" /\ i' = 1
    /\ RealActions(response')

\* C25: while a command runs, its mode goes from normal to quiz only by the
\* auto-detection of step 0 or by an accepted decision of mode quiz, and
\* from quiz to normal only by an accepted decision of mode normal that is
\* done; a decision the retry check rejects leaves the mode as it is
C25_ModeTransitions ==
    [][/\ (pc' # "idle" /\ executionMode' # executionMode) =>
             \/ /\ executionMode = "normal" /\ executionMode' = "quiz"
                /\ AutoDetected \/ (Accepted /\ response'.mode = "quiz")
             \/ /\ executionMode = "quiz" /\ executionMode' = "normal"
                /\ Accepted /\ response'.mode = "normal" /\ response'.done
       /\ (ReAsk \/ (GiveUp /\ pc' # "idle")) => executionMode' = executionMode]_vars

\* a command that built a quiz continuation message is back in normal mode
\* on a decision of mode normal that is done
C25_Witness ==
    /\ pc = "executeAction" /\ executionMode = "normal"
    /\ response.mode = "normal" /\ response.done
    /\ \E k \in 1..Len(conversationHistory) :
          /\ conversationHistory[k].role = "user"
          /\ conversationHistory[k].content.kind = "continueQuiz"

\* what a sendMessage that pushes a pair onto history h leaves of h itself
KeptOf(h) ==
    IF Len(h) + 2 > TrimThreshold
    THEN SubSeq(h, Len(h) - (HistoryWindow - 2) + 1, Len(h)) ELSE h

\* C26: when the loop asks again after a decision without real actions, and
\* when it gives up on a step, the history holds neither entry of the
\* rejected attempt and every earlier entry that the call itself left: the
\* splice takes the pair of the attempt and nothing else
C26_RejectedPairRemoved ==
    [][(ReAsk \/ GiveUp) =>
          conversationHistory' = IF pc = "fetch" THEN KeptOf(conversationHistory)
                                 ELSE conversationHistory]_vars

\* the loop is in step 3 after giving up on step 2, with the pairs of the
\* two steps before it in the history and nothing else
C26_Witness ==
    /\ ui.gaveUp /\ step = 3 /\ pc \in {"inject", "getPageContext"}
    /\ Len(conversationHistory) = 4
    /\ \A k \in 1..4 : conversationHistory[k].content.kind # "corrective"

\* C27: whatever the reply text, _parseResponse returns an object with an
\* actions array: a JSON object of the text that has one, or else the
\* fallback, whose actions are empty and whose done is false; the retry
\* check takes the fallback for a failed attempt, to be asked again
C27_ParseNeverFails ==
    /\ Parsed =>
          \/ response = Fallback
          \/ /\ isJsonValue(response) /\ response[1] = "{"
             /\ \E j \in 1..(Len(response) - 1) :
                   response[j] = "K" /\ response[j + 1] = "["
    /\ (env = "parse" /\ pc = "checked" /\ response = Fallback) =>
          /\ decisionOf(response).actions = <<>> /\ ~decisionOf(response).done
          /\ ~gotActions /\ attempt = 1

\* a reply of prose around an object without actions went to the fallback
\* and was counted as a failed attempt
C27_Witness ==
    /\ env = "parse" /\ pc = "checked" /\ response = Fallback
    /\ responseText = <<"p", "{", "k", "v", "}", "p">> /\ attempt = 1

\* the automatic search is issued: the loop starts to await executeSearch
AutoSearch == pc # "executeSearch" /\ pc' = "executeSearch"

\* C28: an automatic search is issued only in quiz mode with search enabled,
\* for a step whose stable question key is not null and differs from the last
\* searched key; and once a search for a key was made, none is issued in the
\* following steps for as long as the key stays the same
C28_SearchDeduplicated ==
    [][AutoSearch =>
          /\ executionMode' = "quiz" /\ aiClient.searchEnabled
          /\ questionKey' = extractQuestionKey(lastFullVisualMap')
          /\ questionKey' # NoKey /\ questionKey' # lastSearchedQuestion
          /\ questionKey' # ui.searched]_vars

\* the user message of a step is built and handed to the planner
Built == pc \in {"getPageContext", "captureScreenshot", "executeSearch"}
         /\ message' # NoMessage

C30_ConsumedOnce ==
    [][/\ Built =>
             /\ pc # "executeSearch" => message'.search = lastSearchResults
             /\ lastSearchResults' = ""
             /\ message'.search # "" => ui'.shown # -1
       /\ (lastSearchResults' # "" /\ lastSearchResults' # lastSearchResults) =>
             /\ pc = "executeAction" /\ response.actions[i].type = "search"
             /\ ui'.from = step]_vars

\* the reply of a search action of the step before is in the message the
\* planner is awaited with, and the buffer is empty
C30_Witness ==
    /\ pc \in PlannerAwaits /\ step > 0 /\ message.search = "Paris"
    /\ ui.shown = step - 1 /\ lastSearchResults = "" /\ ui.from = -1

\* collectAllFrameVisualMaps has returned its map to getPageContext
Collected == env = "frames" /\ svc.pc \in {"gpc.retrySleep", "shot.attach", "shot.command"}

\* C31: in the map collectAllFrameVisualMaps returns, the map of the top frame
\* comes first and unchanged, the map of every child frame that replied stands
\* under the IFRAME CONTENT header of its frame id, and that header has taken
\* the place of the child's own VISUAL PAGE MAP header; whichever frames
\* replied, a single one included
C31_CrossFrameMerge ==
    Collected =>
        LET out == svc.context.visualMap
            maps == svc.maps
        IN  /\ \A k \in 1..Len(maps) :
                  IF maps[k].isTop
                  THEN SubSeq(out, 1, Len(maps[k].map)) = maps[k].map
                  ELSE \E j \in 1..Len(out) :
                          /\ out[j] = IframeHeader(maps[k].frameId)
                          /\ SubSeq(out, j + 1, j + Len(maps[k].map) - 1)
                                = Tail(maps[k].map)
            /\ Cardinality(Positions(out, {MapHeader}))
                  = Cardinality({k \in 1..Len(maps) : maps[k].isTop})

\* C32: when the provider answers a request with json_validate_failed, the
\* client empties the history and asks once more with the command alone; a
\* retry with content is returned as the decision over a history of just the
\* new pair, any other retry raises the error; the retry is never retried;
\* with either provider
C32_JsonRetryOnce ==
    [][/\ (pc = "fetch" /\ ui'.jsonFailed) =>
             pc' = "retryFetch" /\ conversationHistory' = <<>>
       /\ (pc = "retryFetch" /\ LoopStep) =>
             /\ pc' # "retryFetch"
             /\ exit' \in ErrorExits =>
                   /\ exit' = "retryFailed" /\ req'[cur] = "error"
                   /\ conversationHistory' = <<>>
             /\ exit' \notin ErrorExits =>
                   /\ Len(conversationHistory') \in {0, 2}
                   /\ Len(conversationHistory') = 2 =>
                         conversationHistory'[1] = Entry("user", message)
                   /\ Len(conversationHistory') = 0 => (ReAsk \/ GiveUp)]_vars

\* what the claim asks of a page for the analyst to be called: the primary
\* model takes no images, the page needs vision, and there is a screenshot
HandoffCase(client, ctx) ==
    ~isGroqVisionModel(client.model) /\ ctx.needsVision /\ ctx.screenshot

\* C33: the vision analyst is called for a planner request exactly when the
\* primary model is text-only and the page needs vision and has a screenshot;
\* then the analyst has returned before the planner request is sent, and the
\* planner request has no image attached
C33_VisionHandoff ==
    [][/\ NewPlannerCall =>
             /\ (pc' = "visionAnalysis") <=> HandoffCase(aiClient, pageContext')
             /\ HandoffCase(aiClient, pageContext') =>
                   ~carriesImage(aiClient, pageContext')
       /\ (pc = "visionAnalysis" /\ LoopStep) => pc' = "fetch"]_vars

\* executeAction has returned or thrown
ActDone == env = "probe" /\ svc.pc = "act.done"

\* C34: a drag that names a frame is sent to that frame and to no other; a
\* drag that names none goes to the top frame first and, when the source is
\* not found there, to the other frames one after the other, in order, none
\* twice, and to none after the first in which it succeeded; the drag is
\* performed in at most one frame
C34_DragFrameRecovery ==
    (ActDone /\ svc.action.type = "drag") =>
        LET sent == svc.sent
        IN  /\ svc.action.frameId # NoFrame => sent = <<svc.action.frameId>>
            /\ svc.action.frameId = NoFrame =>
                  /\ sent[1] = 0
                  /\ \A j \in 1..(Len(sent) - 1) :
                        sent[j] < sent[j + 1] /\ frames[sent[j]].events = <<>>
                  /\ (/\ frames[0].script /\ "from" \notin frames[0].nodes
                      /\ Len(svc.list) > 1) => Len(sent) > 1
            /\ Cardinality({f \in FrameIds : frames[f].events # <<>>}) <= 1

\* C35: in quiz mode a drag is first attempted as a click on the source and,
\* after a pause, a click on the target; the synthesized pointer and mouse
\* events and the HTML5 drag events come only afterwards, as fallbacks, so the
\* first event dispatched in a frame by a quiz-mode drag is the click on the
\* source and the synthesized sequence never precedes a click on the target.
C35_QuizDragClicksFirst ==
    (env = "probe" /\ executionMode = "quiz" /\ svc.action.type = "drag")
        => \A f \in FrameIds :
              LET events == frames[f].events
              IN  events # <<>>
                    => /\ events[1] = "click.from"
                       /\ \A n \in 1..Len(events) :
                             events[n] = "pointerdown.from"
                                => \E c \in 1..(n - 1) : events[c] = "click.to"

\* the selectors of the action that match no node of the frame
Missing(action, fr) ==
    IF action.type = "drag" THEN {"from", "to"} \ fr.nodes ELSE {"from"} \ fr.nodes

NotFoundErrors ==
    {"Element not found", "No elements found", "Source element not found",
     "Target element not found"}

\* C36: a selector-based action (click, type, hover, select, element scroll,
\* extract, drag) run by the content script of a frame in which its selector
\* (for a drag: the source or the target selector) matches no node ends with a
\* not-found error result and leaves every frame as it was: no event is
\* dispatched and no element value is changed.
C36_NotFoundLeavesPageUntouched ==
    [][ ( /\ env = "probe" /\ svc.pc \in {"act.first", "act.sweep"}
          /\ frames[svc.target].script
          /\ Missing(svc.action, frames[svc.target]) # {} )
            => /\ frames' = frames
               /\ ~svc'.last.success
               /\ svc'.last.error \in NotFoundErrors ]_vars

C36_Witness ==
    /\ env = "probe" /\ svc.pc = "act.done" /\ svc.action.type = "drag"
    /\ svc.sent = <<1>> /\ frames[1].script
    /\ frames[1].nodes = {"from"}
    /\ svc.last = Result(FALSE, "Target element not found")
    /\ frames[1].events = <<>> /\ frames[1].value = "old"

\* C37: a command request that arrives while a command is executing is
\* rejected as busy and changes nothing else: isExecuting stays true, a pending
\* shouldStop is not cleared, the conversation history, the client and every
\* local of the running command are as before, and no status, log or
\* execution-state event is emitted.
C37_BusyRejectionChangesNothing ==
    [][ \A r \in Requests :
           (isExecuting /\ req[r] = "unsent" /\ req'[r] # "unsent")
              => /\ req' = [req EXCEPT ![r] = "busy"]
                 /\ UNCHANGED <<env, storage, isExecuting, shouldStop, aiClient,
                                conversationHistory, cur, pc, step, executionMode,
                                lastFullVisualMap, lastSearchResults,
                                lastSearchedQuestion, lastSummary, pageContext,
                                questionKey, message, attempt, response,
                                gotActions, i, hitSnapshot, exit, stopAt,
                                executed, captured, histAtCall, skipped, calls,
                                debuggerAttachedTabs, chromeDebugger, frames,
                                inflight, svc, ui, responseText, dom,
                                emitted>> ]_vars

C37_Witness ==
    /\ cur \in Requests /\ req[cur] = "running"
    /\ \E r \in Requests \ {cur} : req[r] = "busy"
    /\ isExecuting /\ shouldStop /\ conversationHistory # <<>>
    /\ step > 0

\* C39: while a command is executing the client it uses is never replaced:
\* once ensureClient has returned, the global holds the instance it bound, and
\* every sendMessage, executeSearch and history splice of the command was made
\* on that instance, whatever VALIDATE_API_KEY messages were handled meanwhile.
C39_ClientNeverReplaced ==
    (env = "client" /\ isExecuting /\ svc.pc # "ensure")
        => /\ svc.global = svc.bound
           /\ \A u \in svc.uses : u.on = svc.bound

\* the states of a step whose accepted reply asked for normal mode with done
\* set, after the mode switch: the batch is being executed in normal mode
Downgraded ==
    /\ Running /\ pc = "executeAction" /\ executionMode = "normal"
    /\ response.mode = "normal" /\ isDone(response)

\* C40: a downgrade from quiz to normal mode needs done = true and ends the
\* loop in the same step: after it the command only executes the rest of the
\* batch and returns, the done flag being honoured because the mode is no
\* longer quiz; a step starts in the mode the previous step ended in, so the
\* mode at the start of a step never goes from quiz back to normal within one
\* command.
C40_DowngradeEndsLoop ==
    [][ /\ (Running /\ Running' /\ cur' = cur
                /\ executionMode = "quiz" /\ executionMode' = "normal")
            => (Downgraded' /\ step' = step)
        /\ Downgraded => (~Running' \/ (Downgraded' /\ step' = step /\ cur' = cur))
        /\ (Running /\ NewStep) => executionMode' = executionMode ]_vars

C40_Witness ==
    /\ Downgraded /\ step > 0 /\ Len(conversationHistory) >= 2
    /\ conversationHistory[Len(conversationHistory) - 1].content.kind
          = "continueQuiz"

\* C38: when every awaited operation eventually completes, every accepted
\* command eventually terminates with a result or an error, and whichever way
\* it leaves the loop (done, budget exhausted, stop, no actions at step 0, a
\* thrown error such as a missing API key or model) isExecuting and shouldStop
\* are both false in the state it returns in, so that the busy guard lets the
\* next command request in.
C38_CommandTerminates ==
    /\ \A r \in Requests : (req[r] = "running") ~> (req[r] \in {"result", "error"})
    /\ [][ \A r \in Requests :
              (req[r] = "running" /\ req'[r] # "running")
                 => /\ req'[r] \in {"result", "error"}
                    /\ ~Running' /\ ~isExecuting' /\ ~shouldStop'
                    /\ ~IsBusy(isExecuting') ]_vars

C38_Witness ==
    /\ env = "live" /\ exit = "budget" /\ req[1] = "result"
    /\ ~Running /\ ~isExecuting /\ ~shouldStop

====
